---------------------------- MODULE Spec2Model ----------------------------
(***************************************************************************)
(* A model of two components of ska_helpers:                               *)
(*                                                                         *)
(*   - ska_helpers.utils.LRUDict, an OrderedDict subclass with a fixed     *)
(*     capacity that evicts the least recently used item;                  *)
(*   - ska_helpers.retry.api.__retry_internal, the loop behind the retry   *)
(*     decorator and retry_call.                                           *)
(*                                                                         *)
(* The two components share no state.  Spec is the LRUDict machine and     *)
(* SpecRetry the retry machine; each leaves the other's variables alone.   *)
(*                                                                         *)
(* Two users of them are modelled as well: chandra_models_cache, which     *)
(* keeps the results of a function in an LRUDict of capacity 32, and       *)
(* tables_open_file, which calls tables.open_file through retry_call.      *)
(***************************************************************************)
EXTENDS Integers, Sequences, FiniteSets, TLC

VARIABLES
    \* ---- LRUDict -------------------------------------------------------
    od,         \* the OrderedDict: a sequence of [key, value], oldest first
    capacity,   \* self.capacity
    clock,      \* observer: number of touches (hits of d[k], writes d[k] = v)
    touch,      \* observer: key -> clock value of its last touch (0: never)
    assigned,   \* observer: key -> value last assigned to it (None: never)
    last,       \* observer: the last completed operation and the dict before it
    \* ---- retry ---------------------------------------------------------
    policy,     \* the arguments of retry()/retry_call(), fixed for the session
    f,          \* the callable: what it may raise and what it may return
    pc,         \* position of __retry_internal
    tries_,     \* _tries
    delay_,     \* _delay
    failures,   \* failures: one [type, value, trace] record per caught exception
    hit,        \* observer: number of invocations of f
    sleeps,     \* observer: durations passed to time.sleep, in order
    events,     \* observer: calls, their results, warnings and sleeps, in order
    outcome,    \* how the session ended
    history,    \* observer: the earlier sessions of the wrapper
    kwargs,     \* the keyword arguments given to tables_open_file
    \* ---- chandra_models_cache (its cache is od, with its capacity) ------
    env,        \* os.environ, for the names in ENV_VAR_NAMES
    made,       \* number of invocations of func; its results are numbered
    uses,       \* observer: the keys used, in the order of their last use
    prev,       \* observer: the call of cached_func before the last one
    \* ---- _mangle_alert_words -------------------------------------------
    text,       \* msg, the argument
    mangled,    \* whether the function has returned, and what
    \* ---- an LRUDict (od, capacity) used by two threads -----------------
    thr,        \* thread -> the operation it runs and its position in it
    mutex,      \* the thread that holds the callers' mutex, or None
    locked,     \* whether the callers run each operation under the mutex
    \* ---- lru_cache_timed -------------------------------------------------
    now,        \* time.time(), in whole seconds
    timeout,    \* the timeout argument
    next_update,\* next_update
    fcache,     \* the cache of functools.lru_cache: argument -> time of computation
    expiry,     \* observer: whether and when clear_cache_if_expired last cleared
    tlast,      \* observer: the last call of _wrapped or cache_info
    \* ---- get_data and get_local_repo ------------------------------------
    gdargs,     \* the arguments of the call of get_data
    gdpc,       \* position of get_data
    clone,      \* clone
    repo,       \* repo: whether it was made and whether it was closed
    repo_path_local, \* repo_path_local, and whether the directory exists
    entered,    \* observer: whether the with block was entered
    raised,     \* the exception get_data has raised, or None
    gets,       \* observer: number of calls of get_data
    tmpdirs,    \* observer: number of directories made by mkdtemp on disk
    unclosed,   \* observer: number of Repo objects that were not closed
    \* ---- a LazyDict or a LazyVal ----------------------------------------
    lazy,       \* the instance: its attributes and, for a LazyDict, its items
    loads,      \* observer: number of invocations of load_func
    lazylog     \* observer: the accesses made, in order

cacheVars == <<env, made, uses, prev>>
mangleVars == <<text, mangled>>
threadVars == <<thr, mutex, locked>>
timedVars == <<now, timeout, next_update, fcache, expiry, tlast>>
\* the variables of the other functions of the package
repoVars == <<gdargs, gdpc, clone, repo, repo_path_local, entered, raised, gets,
              tmpdirs, unclosed>>
lazyVars == <<lazy, loads, lazylog>>
utilVars == <<mangleVars, threadVars, timedVars, repoVars, lazyVars>>
lruVars == <<od, capacity, clock, touch, assigned, last>>
retryVars == <<policy, f, pc, tries_, delay_, failures, hit, sleeps, events, outcome,
               history, kwargs>>
vars == <<lruVars, retryVars, cacheVars, utilVars>>

None == "None"

(***************************************************************************)
(* Bounds of the model.                                                    *)
(***************************************************************************)
\* largest capacity an LRUDict is constructed with
MaxCap == 2
\* number of touches (d[k] hits and d[k] = v) followed in one behaviour
MaxOps == 5

Keys == {"a", "b", "c", "d"}
\* the values stored; what they are plays no part in LRUDict
Vals == {"v1", "v2"}

(***************************************************************************)
(* collections.OrderedDict, as far as LRUDict uses it.                     *)
(***************************************************************************)
KeysOf(d) == {d[i].key : i \in DOMAIN d}

\* key in self (dict.__contains__: LRUDict does not override it)
Contains(d, k) == \E i \in DOMAIN d : d[i].key = k

IndexOf(d, k) == CHOOSE i \in DOMAIN d : d[i].key = k

\* OrderedDict.__getitem__ of a present key
Lookup(d, k) == d[IndexOf(d, k)].value

IsNot(k, e) == e.key # k

\* OrderedDict.__delitem__ of a present key
DelItem(d, k) == SelectSeq(d, LAMBDA e : IsNot(k, e))

\* OrderedDict.move_to_end(key) of a present key
MoveToEnd(d, k) == Append(DelItem(d, k), d[IndexOf(d, k)])

\* OrderedDict.__setitem__: a present key keeps its position, a new key is
\* appended
DictSetItem(d, k, v) ==
    IF Contains(d, k)
    THEN [i \in DOMAIN d |-> IF d[i].key = k THEN [key |-> k, value |-> v] ELSE d[i]]
    ELSE Append(d, [key |-> k, value |-> v])

\* a variant that picks the newest entry instead of the oldest
Newest(d) == d[Len(d)].key

\* next(iter(self))
Oldest(d) == d[1].key

(***************************************************************************)
(* LRUDict                                                                 *)
(***************************************************************************)
\* a variant that lets the dict grow one entry past its capacity
OverflowsOffByOne(d, cap) == Len(d) > cap + 1

\* if len(self) > self.capacity
Overflows(d, cap) == Len(d) > cap

\* a variant without the move_to_end of a present key
SetItemNoMove(d, cap, k, v) ==
    LET d2 == DictSetItem(d, k, v)
    IN  IF Overflows(d2, cap) THEN DelItem(d2, Oldest(d2)) ELSE d2

\* LRUDict.__setitem__
SetItem(d, cap, k, v) ==
    LET d1 == IF Contains(d, k) THEN MoveToEnd(d, k) ELSE d
        d2 == DictSetItem(d1, k, v)
    IN  IF Overflows(d2, cap) THEN DelItem(d2, Oldest(d2)) ELSE d2

\* a variant of the read that leaves the order alone
GetItemNoMove(d, k) == d

\* LRUDict.__getitem__: the dict after the read.  super().__getitem__ raises
\* KeyError for an absent key and move_to_end is not reached.
GetItem(d, k) == IF Contains(d, k) THEN MoveToEnd(d, k) ELSE d

\* a variant that gives a default for an absent key, as dict.get does
GetResultDefault(d, k) == IF Contains(d, k) THEN Lookup(d, k) ELSE None

\* LRUDict.__getitem__: what the read gives its caller
GetResult(d, k) == IF Contains(d, k) THEN Lookup(d, k) ELSE "KeyError"

\* a variant in which the membership test counts as a use of the key
AfterContainsTouch(d, k) == IF Contains(d, k) THEN MoveToEnd(d, k) ELSE d

\* key in d: dict.__contains__ does not go through __getitem__; the dict
\* after the test
AfterContains(d, k) == d

\* keys that are never in Keys, for inserts that must be of new keys
FreshKeys == <<"f1", "f2", "f3", "f4">>

\* The keys that successive d[fresh[i]] = "v1" evict from d, in the order in which
\* they are evicted.
RECURSIVE EvictionOrder(_, _, _)
EvictionOrder(d, cap, fresh) ==
    IF fresh = <<>> THEN <<>>
    ELSE LET d2 == SetItem(d, cap, Head(fresh), "v1")
             gone == KeysOf(d) \ KeysOf(d2)
         IN  (IF gone = {} THEN <<>> ELSE <<CHOOSE g \in gone : TRUE>>)
                \o EvictionOrder(d2, cap, Tail(fresh))

\* the order in which inserts of new keys evict the entries of d
FlushOrder(d, cap) == EvictionOrder(d, cap, SubSeq(FreshKeys, 1, cap))

LRUInit ==
    /\ capacity \in 0..MaxCap
    /\ od = <<>>
    /\ clock = 0
    /\ touch = [k \in Keys |-> 0]
    /\ assigned = [k \in Keys |-> None]
    /\ last = [op |-> "init", key |-> None, value |-> None, ret |-> None, pre |-> <<>>]

\* no LRUDict is in use
LRUIdle == LRUInit /\ capacity = 0

\* d[k] = v
LRUSet(k, v) ==
    /\ clock < MaxOps
    /\ od' = SetItem(od, capacity, k, v)
    /\ clock' = clock + 1
    /\ touch' = [touch EXCEPT ![k] = clock + 1]
    /\ assigned' = [assigned EXCEPT ![k] = v]
    /\ last' = [op |-> "set", key |-> k, value |-> v, ret |-> None, pre |-> od]
    /\ UNCHANGED capacity

\* d[k]: a hit is a touch, a miss is not
LRUGet(k) ==
    /\ Contains(od, k) => clock < MaxOps
    /\ od' = GetItem(od, k)
    /\ clock' = IF Contains(od, k) THEN clock + 1 ELSE clock
    /\ touch' = IF Contains(od, k) THEN [touch EXCEPT ![k] = clock + 1] ELSE touch
    /\ last' = [op |-> "get", key |-> k, value |-> None, ret |-> GetResult(od, k),
                pre |-> od]
    /\ UNCHANGED <<capacity, assigned>>

\* k in d
LRUContains(k) ==
    /\ od' = AfterContains(od, k)
    /\ last' = [op |-> "contains", key |-> k, value |-> None,
                ret |-> Contains(od, k), pre |-> od]
    /\ UNCHANGED <<capacity, clock, touch, assigned>>

(***************************************************************************)
(* retry: __retry_internal, reached through retry(...)(f) and retry_call.  *)
(* Numbers are integers; delay, backoff, jitter and max_delay are not      *)
(* negative (time.sleep rejects a negative duration).                      *)
(***************************************************************************)
\* largest positive tries
MaxTries == 3
\* largest delay and max_delay of a policy
MaxDelay == 2
\* invocations followed in a session whose tries never run out
MaxCalls == MaxTries + 1
\* the calls of a decorated function that are followed
MaxSessions == 2

\* tries: negative (unbounded), 0, positive
TriesValues == {-2, -1, 0} \cup 1..MaxTries
BackoffValues == {0, 1, 2}

\* max_delay=None and max_delay=m
NoMaxDelay == [none |-> TRUE, value |-> 0]
MaxDelayOf(m) == [none |-> FALSE, value |-> m]

\* jitter=j and jitter=(lo, hi)
FixedJitter(j) == [tuple |-> FALSE, lo |-> j, hi |-> j]
TupleJitter(lo, hi) == [tuple |-> TRUE, lo |-> lo, hi |-> hi]
JitterValues == {FixedJitter(0), FixedJitter(1), TupleJitter(0, 1)}

\* exceptions of the configured kinds that the callable may raise
ZeroDivision == [type |-> "ZeroDivisionError", value |-> "division by zero"]
ValueErr == [type |-> "ValueError", value |-> ""]
\* an exception that is not an instance of the configured exceptions
Unmatched == [type |-> "KeyboardInterrupt", value |-> ""]
\* the exceptions of test_retry_exception, and an OSError with the text of
\* the RuntimeError
RuntimeErr == [type |-> "RuntimeError", value |-> "runtime"]
RuntimeErr2 == [type |-> "RuntimeError", value |-> "runtime 2"]
OSErr == [type |-> "OSError", value |-> "os"]
OSErrRuntime == [type |-> "OSError", value |-> "runtime"]
\* an HDF5ExtError with another message
HDF5Err2 == [type |-> "HDF5ExtError", value |-> "HDF5 error back trace"]
\* the exception of MockTableOpen, named by the head of its message
HDF5Err == [type |-> "HDF5ExtError", value |-> "WARNING: Fatal error exception FAILURE"]

NoOutcome == [kind |-> "none", type |-> None, value |-> None, failures |-> <<>>]
\* a variant that drops the value f returned
ReturnedNone(v) == [kind |-> "return", type |-> "f", value |-> None, failures |-> <<>>]
\* return f(*args, **kwargs)
Returned(v) == [kind |-> "return", type |-> "f", value |-> v, failures |-> <<>>]
\* the while loop ends without a return statement: the session returns None
FellThrough == [kind |-> "return", type |-> "fallthrough", value |-> None,
                failures |-> <<>>]
\* raise (the exception just caught), or an exception that was never caught
Raised(e) == [kind |-> "raise", type |-> e.type, value |-> e.value, failures |-> <<>>]
\* raise RetryError(failures=failures)
RaisedRetryError(fs) == [kind |-> "raise", type |-> "RetryError", value |-> "",
                         failures |-> fs]

\* a variant that takes tries as the number of retries after the first attempt
InitialTriesAsRetries(tries) == tries + 1

\* _tries = tries
InitialTries(tries) == tries

\* while _tries: an integer is true when it is not 0
LoopContinues(t) == t # 0

\* a variant that also gives up once the count is below 0
ExhaustedAtOrBelowZero(t) == t <= 0

\* if not _tries
Exhausted(t) == t = 0

\* min(_delay, max_delay)
Min(a, b) == IF a <= b THEN a ELSE b

\* random.uniform(*jitter) for a tuple, jitter itself otherwise
JitterTerms(jitter) == jitter.lo..jitter.hi

\* a variant that applies the cap before the jitter is added
NextDelayCapFirst(d, backoff, jt, max_delay) ==
    IF max_delay.none THEN d * backoff + jt ELSE Min(d * backoff, max_delay.value) + jt

\* a variant that never applies max_delay
NextDelayNoCap(d, backoff, jt, max_delay) == d * backoff + jt

\* _delay *= backoff; _delay += jitter; _delay = min(_delay, max_delay)
NextDelay(d, backoff, jt, max_delay) ==
    IF max_delay.none THEN d * backoff + jt ELSE Min(d * backoff + jt, max_delay.value)

(***************************************************************************)
(* Text.  A str is a sequence of characters; an exception value is named   *)
(* by its text and StrOf gives the characters.                             *)
(***************************************************************************)
\* the messages of the exceptions the callables raise
Texts ==
    {"",
     "division by zero",
     "runtime",
     "runtime 2",
     "os",
     "WARNING: Fatal error exception FAILURE",
     "HDF5 error back trace",
     "WARN1NG: Fata1 err0r excepti0n FAI1URE"}

\* str(value)
StrOf(v) ==
    CASE v = "" ->
          <<>>
      [] v = "division by zero" ->
          <<"d", "i", "v", "i", "s", "i", "o", "n", " ", "b", "y", " ", "z",
            "e", "r", "o">>
      [] v = "runtime" ->
          <<"r", "u", "n", "t", "i", "m", "e">>
      [] v = "runtime 2" ->
          <<"r", "u", "n", "t", "i", "m", "e", " ", "2">>
      [] v = "os" ->
          <<"o", "s">>
      [] v = "HDF5 error back trace" ->
          <<"H", "D", "F", "5", " ", "e", "r", "r", "o", "r", " ", "b", "a",
            "c", "k", " ", "t", "r", "a", "c", "e">>
      [] v = "WARNING: Fatal error exception FAILURE" ->
          <<"W", "A", "R", "N", "I", "N", "G", ":", " ", "F", "a", "t", "a",
            "l", " ", "e", "r", "r", "o", "r", " ", "e", "x", "c", "e", "p",
            "t", "i", "o", "n", " ", "F", "A", "I", "L", "U", "R", "E">>
      [] v = "WARN1NG: Fata1 err0r excepti0n FAI1URE" ->
          <<"W", "A", "R", "N", "1", "N", "G", ":", " ", "F", "a", "t", "a",
            "1", " ", "e", "r", "r", "0", "r", " ", "e", "x", "c", "e", "p",
            "t", "i", "0", "n", " ", "F", "A", "I", "1", "U", "R", "E">>

\* a letter of a pattern, as it matches with flags=re.IGNORECASE
Letter(c, C) == [lower |-> c, upper |-> C]

\* the letters of a word
Word(lower, upper) == [j \in DOMAIN lower |-> Letter(lower[j], upper[j])]

\* a variant without the pattern for fail
AlertWordsWithoutFail == <<
    [word |-> Word(<<"w", "a", "r", "n", "i", "n", "g">>,
                   <<"W", "A", "R", "N", "I", "N", "G">>),
     at |-> 5, sub |-> "1"],
    [word |-> Word(<<"e", "r", "r", "o", "r">>,
                   <<"E", "R", "R", "O", "R">>),
     at |-> 4, sub |-> "0"],
    [word |-> Word(<<"f", "a", "t", "a", "l">>,
                   <<"F", "A", "T", "A", "L">>),
     at |-> 5, sub |-> "1"],
    [word |-> Word(<<"e", "x", "c", "e", "p", "t", "i", "o", "n">>,
                   <<"E", "X", "C", "E", "P", "T", "I", "O", "N">>),
     at |-> 8, sub |-> "0"] >>

\* the (re_word, sub) pairs of _mangle_alert_words, in order: the word the
\* pattern matches, the position of its second group, the replacement
AlertWords == <<
    [word |-> Word(<<"w", "a", "r", "n", "i", "n", "g">>,
                   <<"W", "A", "R", "N", "I", "N", "G">>),
     at |-> 5, sub |-> "1"],
    [word |-> Word(<<"e", "r", "r", "o", "r">>,
                   <<"E", "R", "R", "O", "R">>),
     at |-> 4, sub |-> "0"],
    [word |-> Word(<<"f", "a", "t", "a", "l">>,
                   <<"F", "A", "T", "A", "L">>),
     at |-> 5, sub |-> "1"],
    [word |-> Word(<<"f", "a", "i", "l">>,
                   <<"F", "A", "I", "L">>),
     at |-> 4, sub |-> "1"],
    [word |-> Word(<<"e", "x", "c", "e", "p", "t", "i", "o", "n">>,
                   <<"E", "X", "C", "E", "P", "T", "I", "O", "N">>),
     at |-> 8, sub |-> "0"] >>

\* the pattern matches msg at position i, letter case ignored
MatchesAt(msg, i, word) ==
    /\ i + Len(word) - 1 <= Len(msg)
    /\ \A j \in DOMAIN word :
           \/ msg[i + j - 1] = word[j].lower
           \/ msg[i + j - 1] = word[j].upper

\* re.sub(re_word, rf"\g<1>{sub}\3", msg, flags=re.IGNORECASE) from position i
\* on: the matches are found left to right and do not overlap
RECURSIVE SubFrom(_, _, _)
SubFrom(msg, i, w) ==
    LET found == {j \in i..Len(msg) : MatchesAt(msg, j, w.word)}
    IN  IF found = {} THEN msg
        ELSE LET j == CHOOSE m \in found : \A n \in found : m <= n
             IN  SubFrom([msg EXCEPT ![j + w.at - 1] = w.sub], j + Len(w.word), w)

RECURSIVE MangleWith(_, _)
MangleWith(msg, ws) ==
    IF ws = <<>> THEN msg ELSE MangleWith(SubFrom(msg, 1, Head(ws)), Tail(ws))

\* _mangle_alert_words(msg)
MangleAlertWords(msg) == MangleWith(msg, AlertWords)

\* a variant that compares the types only
HeterogeneousTypesOnly(fs) == Cardinality({fs[i].type : i \in DOMAIN fs}) > 1

\* exc_types = set(e["type"] ...); exc_values = set(str(e["value"]) ...);
\* len(exc_types) > 1 or len(exc_values) > 1
Heterogeneous(fs) ==
    \/ Cardinality({fs[i].type : i \in DOMAIN fs}) > 1
    \/ Cardinality({StrOf(fs[i].value) : i \in DOMAIN fs}) > 1

\* what the session raises when the tries have run out
ExhaustedOutcome(fs, e) == IF Heterogeneous(fs) THEN RaisedRetryError(fs) ELSE Raised(e)

\* the subclasses of Exception among the types the callables raise
\* (exceptions=Exception is the default)
ExceptionTypes == {"ZeroDivisionError", "ValueError", "RuntimeError", "OSError",
                   "HDF5ExtError"}

\* a variant that catches every exception
IsCaughtAlways(pol, e) == TRUE

\* except exceptions as e
IsCaught(pol, e) == e.type \in pol.exceptions

Digits == <<"0", "1", "2", "3", "4", "5", "6", "7", "8", "9">>

\* str(n) of an integer n >= 0
RECURSIVE IntStr(_)
IntStr(n) == IF n < 10 THEN <<Digits[n + 1]>> ELSE IntStr(n \div 10) \o <<Digits[(n % 10) + 1]>>

\* func_call for a callable named f that is called without arguments
FuncCall == <<"f", "(", ")">>

\* f"WARNING: {func_call} exception: {e}, retrying in {_delay} seconds..."
WarningText(e, d) ==
    <<"W", "A", "R", "N", "I", "N", "G", ":", " ">> \o FuncCall \o <<" ", "e", "x", "c", "e", "p", "t", "i", "o", "n", ":", " ">> \o StrOf(e.value)
        \o <<",", " ", "r", "e", "t", "r", "y", "i", "n", "g", " ", "i", "n", " ">> \o IntStr(d) \o <<" ", "s", "e", "c", "o", "n", "d", "s", ".", ".", ".">>

\* the msg given to logger.warning
LoggedText(pol, e, d) ==
    IF pol.mangle_alert_words THEN MangleAlertWords(WarningText(e, d)) ELSE WarningText(e, d)

(***************************************************************************)
(* The session of __retry_internal as a record, and its steps.             *)
(***************************************************************************)
CallEvent(n) == [ev |-> "call", d |-> n]
RaiseEvent(n, e) == [ev |-> "raise", d |-> n, exc |-> e]
ReturnEvent(n, v) == [ev |-> "return", d |-> n, value |-> v]
WarnEvent(d, msg) == [ev |-> "warn", d |-> d, msg |-> msg]
\* time.sleep(d), and the jitter term taken after it
SleepEvent(d, jt) == [ev |-> "sleep", d |-> d, jt |-> jt]

\* the text of an exception value with its alert words mangled
MangledValue(v) ==
    IF MangleAlertWords(StrOf(v)) = StrOf(v) THEN v
    ELSE CHOOSE w \in Texts : StrOf(w) = MangleAlertWords(StrOf(v))

\* a variant that records the mangled text of the exception
FailureRecordMangled(pol, e, n) ==
    [type |-> e.type,
     value |-> IF pol.mangle_alert_words THEN MangledValue(e.value) ELSE e.value,
     trace |-> n]

\* {"type": exc_type, "value": exc_value, "trace": trace}; the trace is
\* named by the invocation it was taken in
FailureRecord(pol, e, n) == [type |-> e.type, value |-> e.value, trace |-> n]

\* a variant that puts the latest failure first
RecordFailureNewestFirst(fs, r) == <<r>> \o fs

\* failures.append(...)
RecordFailure(fs, r) == Append(fs, r)

\* a variant whose message names the delay after its update
WarningsNextDelay(pol, e, d) ==
    IF pol.logger THEN <<WarnEvent(d, LoggedText(pol, e, d * pol.backoff))>> ELSE <<>>

\* if logger is not None: ... logger.warning(msg)
Warnings(pol, e, d) ==
    IF pol.logger THEN <<WarnEvent(d, LoggedText(pol, e, d))>> ELSE <<>>

\* a variant that sleeps only when a logger is configured
AfterWarningLoggerOnly(pol) == IF pol.logger THEN "sleep" ELSE "call"

\* after the "if logger is not None" block: time.sleep(_delay)
AfterWarning(pol) == "sleep"

Session ==
    [pc |-> pc, tries_ |-> tries_, delay_ |-> delay_, failures |-> failures,
     hit |-> hit, sleeps |-> sleeps, events |-> events, outcome |-> outcome]

Becomes(s) ==
    /\ pc' = s.pc
    /\ tries_' = s.tries_
    /\ delay_' = s.delay_
    /\ failures' = s.failures
    /\ hit' = s.hit
    /\ sleeps' = s.sleeps
    /\ events' = s.events
    /\ outcome' = s.outcome

\* _tries, _delay = tries, delay; failures = []; the first test of the loop
NewSession(pol) ==
    LET t == InitialTries(pol.tries)
    IN  [pc |-> IF LoopContinues(t) THEN "call" ELSE "done",
         tries_ |-> t,
         delay_ |-> pol.delay,
         failures |-> <<>>,
         hit |-> 0,
         sleeps |-> <<>>,
         events |-> <<>>,
         outcome |-> IF LoopContinues(t) THEN NoOutcome ELSE FellThrough]

\* a variant in which the delay reached and the failures recorded by the
\* previous session of the wrapper are carried into the next one
StartSessionCarryOver(pol, old) ==
    IF old.pc = "done"
    THEN [NewSession(pol) EXCEPT !.delay_ = old.delay_, !.failures = old.failures]
    ELSE NewSession(pol)

\* wrapper(*args, **kwargs) and retry_call: __retry_internal is entered with
\* the arguments bound by retry(...); old is the session that ended before
StartSession(pol, old) == NewSession(pol)

\* return f(*args, **kwargs)
AfterReturn(s, v) ==
    [s EXCEPT !.hit = @ + 1,
              !.events = @ \o <<CallEvent(s.hit + 1), ReturnEvent(s.hit + 1, v)>>,
              !.outcome = Returned(v),
              !.pc = "done"]

\* f raises e and "except exceptions" does not catch it
AfterUnmatched(s, e) ==
    [s EXCEPT !.hit = @ + 1,
              !.events = @ \o <<CallEvent(s.hit + 1), RaiseEvent(s.hit + 1, e)>>,
              !.outcome = Raised(e),
              !.pc = "done"]

\* a variant that does not count the tries down
AfterMatchedNoCountdown(s, pol, e) ==
    LET fs == RecordFailure(s.failures, FailureRecord(pol, e, s.hit + 1))
        t == s.tries_
        ev == s.events \o <<CallEvent(s.hit + 1), RaiseEvent(s.hit + 1, e)>>
    IN  IF Exhausted(t)
        THEN [s EXCEPT !.hit = @ + 1, !.failures = fs, !.tries_ = t, !.events = ev,
                       !.outcome = ExhaustedOutcome(fs, e),
                       !.pc = "done"]
        ELSE [s EXCEPT !.hit = @ + 1, !.failures = fs, !.tries_ = t,
                       !.events = ev \o Warnings(pol, e, s.delay_),
                       !.pc = AfterWarning(pol)]

\* f raises e, which is caught: the failure is recorded, the tries counted
\* down, and the session raises or warns and goes to sleep
AfterMatched(s, pol, e) ==
    LET fs == RecordFailure(s.failures, FailureRecord(pol, e, s.hit + 1))
        t == s.tries_ - 1
        ev == s.events \o <<CallEvent(s.hit + 1), RaiseEvent(s.hit + 1, e)>>
    IN  IF Exhausted(t)
        THEN [s EXCEPT !.hit = @ + 1, !.failures = fs, !.tries_ = t, !.events = ev,
                       !.outcome = ExhaustedOutcome(fs, e),
                       !.pc = "done"]
        ELSE [s EXCEPT !.hit = @ + 1, !.failures = fs, !.tries_ = t,
                       !.events = ev \o Warnings(pol, e, s.delay_),
                       !.pc = AfterWarning(pol)]

\* a variant that sleeps once more after the delay is updated
AfterSleepTwice(s, pol, jt) ==
    LET d2 == NextDelay(s.delay_, pol.backoff, jt, pol.max_delay)
    IN  [s EXCEPT !.sleeps = @ \o <<s.delay_, d2>>,
                  !.events = @ \o <<SleepEvent(s.delay_, jt), SleepEvent(d2, jt)>>,
                  !.delay_ = d2,
                  !.pc = IF LoopContinues(s.tries_) THEN "call" ELSE "done",
                  !.outcome = IF LoopContinues(s.tries_) THEN @ ELSE FellThrough]

\* time.sleep(_delay) returns; the delay is updated and the loop is tested
AfterSleep(s, pol, jt) ==
    [s EXCEPT !.sleeps = Append(@, s.delay_),
              !.events = Append(@, SleepEvent(s.delay_, jt)),
              !.delay_ = NextDelay(s.delay_, pol.backoff, jt, pol.max_delay),
              !.pc = IF LoopContinues(s.tries_) THEN "call" ELSE "done",
              !.outcome = IF LoopContinues(s.tries_) THEN @ ELSE FellThrough]

\* the invocations of f, what they did, and the sleeps, without the warnings
IsScriptEvent(x) == x.ev \in {"return", "raise", "sleep"}
ScriptOf(evs) == SelectSeq(evs, IsScriptEvent)

\* one step of a session whose callable and jitter do what x says
ReplayStep(s, pol, x) ==
    CASE x.ev = "return" /\ s.pc = "call" -> AfterReturn(s, x.value)
      [] x.ev = "raise" /\ s.pc = "call" /\ IsCaught(pol, x.exc) ->
             AfterMatched(s, pol, x.exc)
      [] x.ev = "raise" /\ s.pc = "call" /\ ~IsCaught(pol, x.exc) ->
             AfterUnmatched(s, x.exc)
      [] x.ev = "sleep" /\ s.pc = "sleep" -> AfterSleep(s, pol, x.jt)
      [] OTHER -> [s EXCEPT !.pc = "diverged"]

\* the session that results when the callable and the jitter do what the
\* script says
RECURSIVE Replay(_, _, _)
Replay(s, pol, script) ==
    IF script = <<>> THEN s
    ELSE Replay(ReplayStep(s, pol, Head(script)), pol, Tail(script))

\* what a caller and the callable can see of a session: everything but the
\* warnings
Observable(s) ==
    [pc |-> s.pc, hit |-> s.hit, sleeps |-> s.sleeps, outcome |-> s.outcome,
     failures |-> s.failures, tries_ |-> s.tries_, delay_ |-> s.delay_,
     script |-> ScriptOf(s.events)]

(***************************************************************************)
(* The retry machine.                                                      *)
(***************************************************************************)
config == <<policy, f, kwargs>>

NotStarted ==
    /\ pc = "idle"
    /\ tries_ = 0
    /\ delay_ = 0
    /\ failures = <<>>
    /\ hit = 0
    /\ sleeps = <<>>
    /\ events = <<>>
    /\ outcome = NoOutcome
    /\ history = <<>>

RetryIdle ==
    /\ policy = None
    /\ f = None
    /\ kwargs = None
    /\ NotStarted

\* the policy is bound by retry(...) or given to retry_call; nothing has run
RetryInit ==
    /\ policy \in [tries : TriesValues,
                   delay : 0..MaxDelay,
                   max_delay : {NoMaxDelay} \cup {MaxDelayOf(m) : m \in 0..MaxDelay},
                   backoff : BackoffValues,
                   jitter : JitterValues,
                   logger : BOOLEAN,
                   mangle_alert_words : {FALSE},
                   exceptions : {ExceptionTypes}]
    /\ f = [raises |-> {ZeroDivision, ValueErr, Unmatched}, returns |-> {"ok"}]
    /\ kwargs = None
    /\ NotStarted

\* the wrapper or retry_call enters __retry_internal
RetryBegin ==
    /\ pc = "idle"
    /\ Becomes(StartSession(policy, Session))
    /\ UNCHANGED <<config, history>>

\* f(*args, **kwargs) returns v
RetryCallReturns(v) ==
    /\ pc = "call"
    /\ hit < MaxCalls
    /\ Becomes(AfterReturn(Session, v))
    /\ UNCHANGED <<config, history>>

\* f raises an exception that "except exceptions" does not catch
RetryCallRaisesUnmatched(e) ==
    /\ pc = "call"
    /\ hit < MaxCalls
    /\ ~IsCaught(policy, e)
    /\ Becomes(AfterUnmatched(Session, e))
    /\ UNCHANGED <<config, history>>

\* f raises e, which is caught
RetryCallRaisesMatched(e) ==
    /\ pc = "call"
    /\ hit < MaxCalls
    /\ IsCaught(policy, e)
    /\ Becomes(AfterMatched(Session, policy, e))
    /\ UNCHANGED <<config, history>>

\* the decorated function is called again after a call of it has ended
RetryAgain ==
    /\ pc = "done"
    /\ Len(history) < MaxSessions - 1
    /\ history' = Append(history, Session)
    /\ Becomes(StartSession(policy, Session))
    /\ UNCHANGED config

\* time.sleep(_delay) returns; the delay is updated and the loop test passes
RetrySleep(jt) ==
    /\ pc = "sleep"
    /\ Becomes(AfterSleep(Session, policy, jt))
    /\ UNCHANGED <<config, history>>

(***************************************************************************)
(* tables_open_file: tables.open_file called through retry_call.           *)
(***************************************************************************)
\* backoff=1 of retry_call
RetryCallBackoff == 1
\* kwargs.pop("retry_delay", 2)
DefaultRetryDelay == 2
\* kwargs.pop("retry_tries", 3)
DefaultRetryTries == 3
\* kwargs.pop("retry_backoff", 2)
DefaultRetryBackoff == 2

\* a keyword that is not passed, and one that is passed with the value v
Absent == <<>>
Given(v) == <<v>>

\* kwargs.pop(name, default)
Pop(kw, name, default) == IF kw[name] = Absent THEN default ELSE kw[name][1]

\* the arguments retry_call gets from tables_open_file; retry_logger is a
\* logger (TRUE, as logging_logger is) or None (FALSE); max_delay and jitter
\* are left at the defaults of retry_call
TablesPolicy(kw) ==
    [tries |-> Pop(kw, "retry_tries", DefaultRetryTries),
     delay |-> Pop(kw, "retry_delay", DefaultRetryDelay),
     max_delay |-> NoMaxDelay,
     backoff |-> Pop(kw, "retry_backoff", DefaultRetryBackoff),
     jitter |-> FixedJitter(0),
     logger |-> Pop(kw, "retry_logger", TRUE),
     mangle_alert_words |-> Pop(kw, "mangle_alert_words", TRUE),
     exceptions |-> {"HDF5ExtError"}]

\* tables_open_file has been called with some of its keywords;
\* tables.open_file may fail with HDF5ExtError or OSError or return a handle
TablesInit ==
    /\ kwargs \in [retry_tries : {Absent} \cup {Given(n) : n \in 1..MaxTries},
                   retry_delay : {Absent, Given(0), Given(1)},
                   retry_backoff : {Absent, Given(1)},
                   retry_logger : {Absent, Given(FALSE)},
                   mangle_alert_words : {Absent, Given(FALSE)}]
    /\ policy = None
    /\ f = [raises |-> {HDF5Err, HDF5Err2, OSErr}, returns |-> {"SUCCESS"}]
    /\ NotStarted

\* the keywords are popped and retry_call enters __retry_internal
TablesOpenFile ==
    /\ pc = "idle"
    /\ policy' = TablesPolicy(kwargs)
    /\ Becomes(StartSession(policy', Session))
    /\ UNCHANGED <<f, kwargs, history>>

(***************************************************************************)
(* chandra_models_cache: cached_func and its LRUDict.                      *)
(***************************************************************************)
\* the capacity of an LRUDict constructed without one
DefaultCapacity == 128
\* cache = LRUDict(capacity=32)
CacheCapacity == 32

\* results of func that are followed
MaxMade == 35
\* calls of cached_func that are followed when the keys are compared
MaxKeyCalls == 2

ENV_VAR_NAMES ==
    <<"CHANDRA_MODELS_REPO_DIR",
      "CHANDRA_MODELS_DEFAULT_VERSION",
      "THERMAL_MODELS_DIR_FOR_MATLAB_TOOLS_SW">>

EnvNames == {ENV_VAR_NAMES[i] : i \in DOMAIN ENV_VAR_NAMES}

\* the names of the keyword arguments, in the order of str
KwNames == <<"b", "c">>

\* a keyword argument name=value
Kw(name, value) == <<name, value>>

\* the keyword arguments a call passes, in the order it passes them
KwargsValues ==
    {<<>>,
     <<Kw("b", 1)>>,
     <<Kw("b", 2)>>,
     <<Kw("b", 1), Kw("c", 2)>>,
     <<Kw("c", 2), Kw("b", 1)>>}

\* the positional arguments a call passes
ArgsValues == {<<0>>, <<1>>}

\* sorted(kwargs.items()): the names are distinct, so the items come in the
\* order of their names
RECURSIVE SortedBy(_, _)
SortedBy(items, names) ==
    IF names = <<>> THEN <<>>
    ELSE SelectSeq(items, LAMBDA it : it[1] = Head(names)) \o SortedBy(items, Tail(names))

SortedItems(kw) == SortedBy(kw, KwNames)

\* tuple((name, os.environ.get(name)) for name in ENV_VAR_NAMES)
EnvItems(e) == [i \in DOMAIN ENV_VAR_NAMES |-> <<ENV_VAR_NAMES[i], e[ENV_VAR_NAMES[i]]>>]

\* a variant of the key that leaves the environment out
MakeKeyNoEnv(args, kw, e) == <<args, SortedItems(kw), <<>> >>

\* key = (args, tuple(sorted(kwargs.items())), tuple(... ENV_VAR_NAMES))
MakeKey(args, kw, e) == <<args, SortedItems(kw), EnvItems(e)>>

\* the position of a key in the order of last use
UseIndex(u, k) == CHOOSE i \in DOMAIN u : u[i] = k

\* the number of other distinct keys used since the last use of k
OthersSince(u, k) == Len(u) - UseIndex(u, k)

\* the order of last use after a use of k
Used(u, k) == Append(SelectSeq(u, LAMBDA x : x # k), k)

NoCall ==
    [op |-> "init", key |-> <<>>, args |-> <<>>, kwargs |-> <<>>, env |-> <<>>,
     invoked |-> FALSE, ret |-> 0, pre |-> <<>>, known |-> FALSE, others |-> 0,
     stored |-> 0]

\* no decorated function is in use
CacheIdle ==
    /\ env = None
    /\ made = 0
    /\ uses = <<>>
    /\ prev = None

\* chandra_models_cache(func) has returned cached_func; the variables named
\* in ENV_VAR_NAMES are not set
CacheInit ==
    /\ od = <<>>
    /\ capacity = CacheCapacity
    /\ clock = 0
    /\ touch = [k \in Keys |-> 0]
    /\ assigned = <<>>
    /\ last = NoCall
    /\ env = [n \in EnvNames |-> None]
    /\ made = 0
    /\ uses = <<>>
    /\ prev = NoCall

\* cached_func(*args, **kwargs); the result of the invocation number n of
\* func is the object n; assigned is the object last returned for each key
CachedFunc(args, kw) ==
    LET key == MakeKey(args, kw, env)
        miss == ~Contains(AfterContains(od, key), key)
        d0 == AfterContains(od, key)
        d1 == IF miss THEN SetItem(d0, capacity, key, made + 1) ELSE d0
        known == \E i \in DOMAIN uses : uses[i] = key
    IN  /\ miss => made < MaxMade
        /\ made' = IF miss THEN made + 1 ELSE made
        /\ od' = GetItem(d1, key)
        /\ uses' = Used(uses, key)
        /\ assigned' = [k \in DOMAIN assigned \cup {key} |->
                            IF k = key THEN GetResult(d1, key) ELSE assigned[k]]
        /\ prev' = last
        /\ last' = [op |-> "call", key |-> key, args |-> args, kwargs |-> kw,
                    env |-> env, invoked |-> miss, ret |-> GetResult(d1, key),
                    pre |-> od, known |-> known,
                    others |-> IF known THEN OthersSince(uses, key) ELSE 0,
                    stored |-> IF known THEN assigned[key] ELSE 0]
        /\ UNCHANGED <<capacity, touch, env>>

\* the positional argument of the call before, or 0
LastArg == IF last.op = "call" THEN last.args[1] ELSE 0

\* a call with the argument 0, with the argument of the call before, or with
\* an argument that was not used yet
CacheCall ==
    \E a \in {0, LastArg, Len(uses)} :
        /\ CachedFunc(<<a>>, <<>>)
        /\ UNCHANGED clock

\* one of MaxKeyCalls calls with arguments of all kinds
KeyCall(args, kw) ==
    /\ clock < MaxKeyCalls
    /\ CachedFunc(args, kw)
    /\ clock' = clock + 1

\* os.environ[name] = value, or del os.environ[name] for the value None;
\* one variable is set at a time, as with temp_env_var
SetEnv(name, value) ==
    /\ clock < MaxKeyCalls
    /\ env[name] # value
    /\ \A n \in EnvNames \ {name} : env[n] = None
    /\ env' = [env EXCEPT ![name] = value]
    /\ UNCHANGED <<lruVars, made, uses, prev>>

(***************************************************************************)
(* _mangle_alert_words as a function of its argument.                      *)
(***************************************************************************)
\* the number of pieces an argument is put together from
MaxPieces == 3

\* alert words in several spellings, parts of them, and other characters
Pieces ==
    {<<"w", "a", "r", "n", "i", "n", "g">>, <<"E", "r", "r", "o", "r">>,
     <<"F", "A", "T", "A", "L">>, <<"f", "a", "i", "l">>,
     <<"E", "x", "c", "e", "p", "t", "i", "o", "n">>, <<"W", "A", "R", "N">>,
     <<"i", "n", "g">>, <<"e", "x", "c", "e", "p", "t", "i">>, <<"o", "n">>,
     <<"f", "a">>, <<"t", "a", "l">>, <<"i", "l">>, <<"e", "r", "r">>,
     <<"o", "r">>, <<" ">>, <<"1">>}

\* the strings put together from at most n pieces
RECURSIVE Joined(_)
Joined(n) ==
    IF n = 0 THEN {<<>>}
    ELSE Joined(n - 1) \cup {s \o p : s \in Joined(n - 1), p \in Pieces}

NotMangled == [done |-> FALSE, out |-> <<>>]

MangleIdle ==
    /\ text = <<>>
    /\ mangled = NotMangled

(***************************************************************************)
(* An LRUDict used by two threads.  A thread may be switched between any   *)
(* two of the calls that __setitem__ and __getitem__ make; each call of a  *)
(* method of OrderedDict is one step.                                      *)
(***************************************************************************)
Threads == {"t1", "t2"}

NotRunning ==
    [pc |-> "idle", op |-> None, key |-> None, oldest |-> None, snap |-> {},
     inserted |-> FALSE, result |-> None, errkey |-> None, size |-> 0]

ThreadIdle ==
    /\ thr = None
    /\ mutex = None
    /\ locked = FALSE

\* the entries of a dict that holds the keys of q, oldest first
DictOf(q) == [i \in DOMAIN q |-> [key |-> q[i], value |-> "v1"]]

\* the sequences of distinct keys of length at most n
RECURSIVE KeySeqs(_)
KeySeqs(n) ==
    IF n = 0 THEN {<<>>}
    ELSE KeySeqs(n - 1) \cup
         UNION {{Append(q, k) : k \in Keys \ {q[i] : i \in DOMAIN q}} :
                    q \in KeySeqs(n - 1)}

\* an LRUDict with some keys in it and two threads that are about to use it
ThreadsInit ==
    /\ capacity \in 0..MaxCap
    /\ od \in {DictOf(q) : q \in KeySeqs(capacity)}
    /\ clock = 0
    /\ touch = [k \in Keys |-> 0]
    /\ assigned = [k \in Keys |-> None]
    /\ last = [op |-> "init", key |-> None, value |-> None, ret |-> None, pre |-> <<>>]
    /\ thr = [t \in Threads |-> NotRunning]
    /\ mutex = None
    /\ locked \in BOOLEAN

\* a variant in which the mutex keeps nobody out
MayEnterAlways(t) == TRUE

\* the caller of thread t may start an operation: without the mutex at any
\* time, with it when no thread holds it
MayEnter(t) == locked => mutex = None

\* thread t goes on to the next call of its operation
GoesTo(t, pc2) ==
    /\ thr' = [thr EXCEPT ![t].pc = pc2]
    /\ UNCHANGED <<mutex, locked>>

\* the operation of thread t ends, by returning or by raising; the caller
\* releases the mutex
Ends(t, result, errkey, d) ==
    /\ thr' = [thr EXCEPT ![t].pc = "done", ![t].result = result,
                          ![t].errkey = errkey, ![t].size = Len(d)]
    /\ mutex' = IF mutex = t THEN None ELSE mutex
    /\ UNCHANGED locked

\* thread t calls d[k] = v (op "set") or d[k] (op "get")
ThreadBegin(t, op, k) ==
    /\ thr[t].pc = "idle"
    /\ MayEnter(t)
    /\ thr' = [thr EXCEPT ![t] = [NotRunning EXCEPT
                   !.pc = IF op = "set" THEN "contains" ELSE "lookup",
                   !.op = op, !.key = k, !.snap = KeysOf(od)]]
    /\ mutex' = IF locked THEN t ELSE mutex
    /\ UNCHANGED <<od, locked>>

\* __setitem__: if key in self
SetContains(t) ==
    /\ thr[t].pc = "contains"
    /\ od' = AfterContains(od, thr[t].key)
    /\ GoesTo(t, IF Contains(od, thr[t].key) THEN "move" ELSE "insert")

\* __setitem__: self.move_to_end(key)
SetMove(t) ==
    /\ thr[t].pc = "move"
    /\ IF Contains(od, thr[t].key)
       THEN od' = MoveToEnd(od, thr[t].key) /\ GoesTo(t, "insert")
       ELSE od' = od /\ Ends(t, "KeyError", thr[t].key, od)

\* __setitem__: super().__setitem__(key, value)
SetInsert(t) ==
    /\ thr[t].pc = "insert"
    /\ od' = DictSetItem(od, thr[t].key, "v1")
    /\ thr' = [thr EXCEPT ![t].pc = "lentest", ![t].inserted = TRUE]
    /\ UNCHANGED <<mutex, locked>>

\* __setitem__: if len(self) > self.capacity
SetLenTest(t) ==
    /\ thr[t].pc = "lentest"
    /\ od' = od
    /\ IF Overflows(od, capacity) THEN GoesTo(t, "pick") ELSE Ends(t, "ok", None, od)

\* __setitem__: oldest = next(iter(self))
SetPick(t) ==
    /\ thr[t].pc = "pick"
    /\ od' = od
    /\ IF od = <<>>
       THEN Ends(t, "StopIteration", None, od)
       ELSE /\ thr' = [thr EXCEPT ![t].pc = "delete", ![t].oldest = Oldest(od)]
            /\ UNCHANGED <<mutex, locked>>

\* __setitem__: del self[oldest]
SetDelete(t) ==
    /\ thr[t].pc = "delete"
    /\ IF Contains(od, thr[t].oldest)
       THEN /\ od' = DelItem(od, thr[t].oldest)
            /\ Ends(t, "ok", None, od')
       ELSE od' = od /\ Ends(t, "KeyError", thr[t].oldest, od)

\* __getitem__: value = super().__getitem__(key)
GetLookup(t) ==
    /\ thr[t].pc = "lookup"
    /\ od' = od
    /\ IF Contains(od, thr[t].key)
       THEN GoesTo(t, "getmove")
       ELSE Ends(t, "KeyError", thr[t].key, od)

\* __getitem__: self.move_to_end(key); return value
GetMove(t) ==
    /\ thr[t].pc = "getmove"
    /\ IF Contains(od, thr[t].key)
       THEN od' = MoveToEnd(od, thr[t].key) /\ Ends(t, "ok", None, od')
       ELSE od' = od /\ Ends(t, "KeyError", thr[t].key, od)

ThreadStep(t) ==
    \/ \E op \in {"set", "get"}, k \in Keys : ThreadBegin(t, op, k)
    \/ SetContains(t)
    \/ SetMove(t)
    \/ SetInsert(t)
    \/ SetLenTest(t)
    \/ SetPick(t)
    \/ SetDelete(t)
    \/ GetLookup(t)
    \/ GetMove(t)

(***************************************************************************)
(* lru_cache_timed.  Time is counted in whole seconds.  The cache of       *)
(* functools.lru_cache is a map from the argument to the result, and a     *)
(* result is named by the time at which func computed it; maxsize is       *)
(* larger than the number of arguments used.                               *)
(***************************************************************************)
\* the clock is followed up to this time
MaxTime == 5
\* largest timeout
MaxTimeout == 2

\* the arguments func is called with
TimedArgs == {1, 2}

NeverCleared == [done |-> FALSE, at |-> 0]
NoTimedCall ==
    [op |-> "init", arg |-> 0, cleared |-> FALSE, hit |-> FALSE, computed |-> 0,
     at |-> 0, before |-> NeverCleared, size |-> 0]

TimedIdle ==
    /\ now = 0
    /\ timeout = 0
    /\ next_update = 0
    /\ fcache = <<>>
    /\ expiry = NeverCleared
    /\ tlast = NoTimedCall

\* _wrapper(func) has run at time now: next_update = time.time() - 1 and a
\* new lru_cache
TimedInit ==
    /\ now \in {0, 1}
    /\ timeout \in 0..MaxTimeout
    /\ next_update = now - 1
    /\ fcache = <<>>
    /\ expiry = NeverCleared
    /\ tlast = NoTimedCall

\* a variant that lets the cache live one moment longer
IsExpiredLate(t, nu) == t > nu

\* if now >= next_update
IsExpired(t, nu) == t >= nu

\* clear_cache_if_expired(): the cache and next_update after it
ClearedCache(c) == IF IsExpired(now, next_update) THEN <<>> ELSE c
UpdatedNext == IF IsExpired(now, next_update) THEN now + timeout ELSE next_update
ExpiryAfter ==
    IF IsExpired(now, next_update) THEN [done |-> TRUE, at |-> now] ELSE expiry

\* _wrapped(a): clear_cache_if_expired(), then func(a) through lru_cache
TimedCall(a) ==
    LET c == ClearedCache(fcache)
        found == a \in DOMAIN c
        computed == IF found THEN c[a] ELSE now
    IN  /\ fcache' = [x \in DOMAIN c \cup {a} |-> IF x = a THEN computed ELSE c[x]]
        /\ next_update' = UpdatedNext
        /\ expiry' = ExpiryAfter
        /\ tlast' = [op |-> "call", arg |-> a, cleared |-> IsExpired(now, next_update),
                     hit |-> found, computed |-> computed, at |-> now,
                     before |-> expiry, size |-> Cardinality(DOMAIN c \cup {a})]
        /\ UNCHANGED <<now, timeout>>

\* _wrapped.cache_info(): clear_cache_if_expired(), then func.cache_info()
TimedCacheInfo ==
    LET c == ClearedCache(fcache)
    IN  /\ fcache' = c
        /\ next_update' = UpdatedNext
        /\ expiry' = ExpiryAfter
        /\ tlast' = [op |-> "info", arg |-> 0, cleared |-> IsExpired(now, next_update),
                     hit |-> FALSE, computed |-> 0, at |-> now, before |-> expiry,
                     size |-> Cardinality(DOMAIN c)]
        /\ UNCHANGED <<now, timeout>>

\* _wrapped.cache_clear(), which is func.cache_clear
TimedCacheClear ==
    /\ fcache # <<>>
    /\ fcache' = <<>>
    /\ UNCHANGED <<now, timeout, next_update, expiry, tlast>>

\* a second passes
Tick ==
    /\ now < MaxTime
    /\ now' = now + 1
    /\ UNCHANGED <<timeout, next_update, fcache, expiry, tlast>>

(***************************************************************************)
(* get_data: the with block of get_local_repo.                             *)
(***************************************************************************)
\* the number of calls of get_data
MaxGets == 2

GitHubPath == "https://github.com/sot/chandra_models.git"
LocalPath == "/ska/data/chandra_models"
NotADirectory == "__NOT_A_DIRECTORY__"
RepoPaths == {GitHubPath, LocalPath, NotADirectory}
Versions == {None, "3.30"}
FilePaths == {"chandra_models/xija/aca/aca_spec.json", "xxxyyyzzz"}

\* str(repo_path).startswith("https://github.com")
StartsWithGitHub(p) == p = GitHubPath
\* a repository can be opened or cloned from the path
IsRepo(p) == p # NotADirectory
\* repo_file_path.exists()
Exists(file_path) == file_path # "xxxyyyzzz"

NoRepo == [made |-> FALSE, closed |-> FALSE]
NoLocalPath == [path |-> None, temp |-> FALSE, exists |-> FALSE]
\* tempfile.mkdtemp()
TempDir == [path |-> "tmp", temp |-> TRUE, exists |-> TRUE]

RepoIdle ==
    /\ gdargs = None
    /\ gdpc = "off"
    /\ clone = FALSE
    /\ repo = NoRepo
    /\ repo_path_local = NoLocalPath
    /\ entered = FALSE
    /\ raised = None
    /\ gets = 0
    /\ tmpdirs = 0
    /\ unclosed = 0

\* no call of get_data has been made
RepoInit ==
    /\ gdargs = None
    /\ gdpc = "idle"
    /\ clone = FALSE
    /\ repo = NoRepo
    /\ repo_path_local = NoLocalPath
    /\ entered = FALSE
    /\ raised = None
    /\ gets = 0
    /\ tmpdirs = 0
    /\ unclosed = 0

\* clone = str(repo_path).startswith("https://github.com") or version is not None
IsClone(repo_path, version) == StartsWithGitHub(repo_path) \/ version # None

\* get_data is called and enters the with statement: get_local_repo runs up
\* to its yield, or raises before it
GetDataEnters(a) ==
    /\ gdpc \in {"idle", "returned", "raised"}
    /\ gets < MaxGets
    /\ gets' = gets + 1
    /\ gdargs' = a
    /\ clone' = IsClone(a.repo_path, a.version)
    /\ IF IsClone(a.repo_path, a.version)
       THEN IF IsRepo(a.repo_path)
            THEN \* mkdtemp, clone_from, checkout
                 /\ repo_path_local' = TempDir
                 /\ tmpdirs' = tmpdirs + 1
                 /\ repo' = [made |-> TRUE, closed |-> FALSE]
                 /\ unclosed' = unclosed + 1
                 /\ entered' = TRUE
                 /\ raised' = None
                 /\ gdpc' = "with"
            ELSE \* mkdtemp, and clone_from raises
                 /\ repo_path_local' = TempDir
                 /\ tmpdirs' = tmpdirs + 1
                 /\ repo' = NoRepo
                 /\ entered' = FALSE
                 /\ raised' = "GitCommandError"
                 /\ gdpc' = "raised"
                 /\ UNCHANGED unclosed
       ELSE IF IsRepo(a.repo_path)
            THEN \* git.Repo(repo_path); repo_path_local = repo_path
                 /\ repo_path_local' = [path |-> a.repo_path, temp |-> FALSE, exists |-> TRUE]
                 /\ repo' = [made |-> TRUE, closed |-> FALSE]
                 /\ unclosed' = unclosed + 1
                 /\ entered' = TRUE
                 /\ raised' = None
                 /\ gdpc' = "with"
                 /\ UNCHANGED tmpdirs
            ELSE \* git.Repo(repo_path) raises
                 /\ repo_path_local' = NoLocalPath
                 /\ repo' = NoRepo
                 /\ entered' = FALSE
                 /\ raised' = "NoSuchPathError"
                 /\ gdpc' = "raised"
                 /\ UNCHANGED <<tmpdirs, unclosed>>

\* the exception of the body is thrown into the generator at its yield;
\* the yield is not inside a try statement: the exception leaves the
\* generator at the yield and the statements after it are not run
ThrownAtYield(r, local, cl) ==
    [repo |-> r, local |-> local, closes |-> 0, removes |-> 0]

\* the generator is resumed after the body: repo.close() and, for a clone,
\* shutil.rmtree(repo_path_local)
ResumedAfterYield(r, local, cl) ==
    [repo |-> [r EXCEPT !.closed = TRUE],
     local |-> IF cl THEN [local EXCEPT !.exists = FALSE] ELSE local,
     closes |-> 1,
     removes |-> IF cl THEN 1 ELSE 0]

\* the with block is left, the generator having done g
Leaves(g, exc) ==
    /\ repo' = g.repo
    /\ repo_path_local' = g.local
    /\ unclosed' = unclosed - g.closes
    /\ tmpdirs' = tmpdirs - g.removes
    /\ raised' = exc
    /\ gdpc' = IF exc = None THEN "returned" ELSE "raised"
    /\ UNCHANGED <<gdargs, clone, entered, gets>>

\* raise FileNotFoundError(f"chandra_models {file_path=} does not exist")
GetDataFileNotFound ==
    /\ gdpc = "with"
    /\ ~Exists(gdargs.file_path)
    /\ Leaves(ThrownAtYield(repo, repo_path_local, clone), "FileNotFoundError")

\* assert_latest_version raises ValueError: the version is not the latest
GetDataVersionMismatch ==
    /\ gdpc = "with"
    /\ Exists(gdargs.file_path)
    /\ gdargs.require_latest_version
    /\ Leaves(ThrownAtYield(repo, repo_path_local, clone), "ValueError")

\* the body of the with statement completes; return data, info
GetDataReturns ==
    /\ gdpc = "with"
    /\ Exists(gdargs.file_path)
    /\ Leaves(ResumedAfterYield(repo, repo_path_local, clone), None)

(***************************************************************************)
(* LazyDict and LazyVal.                                                   *)
(***************************************************************************)
\* the number of accesses made to an instance
MaxAccesses == 3

LazyKeys == {"a", "z"}
\* the accesses: the method and, where it takes one, the key
LazyDictAccesses ==
    {[op |-> o, k |-> k] : o \in {"getitem", "contains", "get"}, k \in LazyKeys}
        \cup {[op |-> o, k |-> None] : o \in {"len", "iter", "keys", "values", "items"}}
LazyValAccesses == {[op |-> "val", k |-> None]}
AccessesOf(kind) == IF kind = "LazyDict" THEN LazyDictAccesses ELSE LazyValAccesses

\* what the n-th invocation of load_func returns, when it returns
LoadFunc(n) == <<[key |-> "a", value |-> n], [key |-> "b", value |-> 2]>>

\* dict.update(other), and self._val = other
RECURSIVE Update(_, _)
Update(d, other) ==
    IF other = <<>> THEN d
    ELSE Update(DictSetItem(d, other[1].key, other[1].value), Tail(other))

\* the methods of dict that _lazy_load_wrap wraps, dict.__getitem__, and the
\* value of a LazyVal
Value(v) == [kind |-> "value", value |-> v]
KeyError(k) == [kind |-> "KeyError", key |-> k]
LoadError == [kind |-> "raise", exc |-> "load_func"]
Method(d, a) ==
    CASE a.op = "getitem" -> IF Contains(d, a.k) THEN Value(Lookup(d, a.k)) ELSE KeyError(a.k)
      [] a.op = "contains" -> Value(Contains(d, a.k))
      [] a.op = "get" -> Value([found |-> Contains(d, a.k),
                                v |-> IF Contains(d, a.k) THEN Lookup(d, a.k) ELSE 0])
      [] a.op = "len" -> Value(Len(d))
      [] a.op \in {"iter", "keys"} -> Value([i \in DOMAIN d |-> d[i].key])
      [] a.op = "values" -> Value([i \in DOMAIN d |-> d[i].value])
      [] a.op \in {"items", "val"} -> Value(d)

\* LazyDict(load_func, ...) or LazyVal(load_func, ...)
NewLazy(kind) == [kind |-> kind, load_func |-> TRUE, loaded |-> FALSE, data |-> <<>>]

\* whether the access comes to the test of _load or of val: __getitem__
\* tries dict.__getitem__ first
ReachesLoad(z, a) ==
    IF z.kind = "LazyDict" /\ a.op = "getitem" THEN ~Contains(z.data, a.k) ELSE TRUE

\* if not self._loaded; if not hasattr(self, "_val")
NeedsLoad(z) == ~z.loaded

\* a variant that neither marks the instance as loaded nor deletes load_func
AfterLoadNotMarked(z, res) == [z EXCEPT !.data = Update(z.data, res)]

\* self.update(...); self._loaded = True (or self._val = ...);
\* del self._load_func
AfterLoad(z, res) ==
    [z EXCEPT !.data = Update(z.data, res), !.loaded = TRUE, !.load_func = FALSE]

\* the access a to z when load_func has been invoked n times before and
\* its next invocation, if one is made, fails or not
Access(z, n, a, fails) ==
    LET invoked == ReachesLoad(z, a) /\ NeedsLoad(z)
        z2 == IF invoked /\ ~fails THEN AfterLoad(z, LoadFunc(n + 1)) ELSE z
    IN  [z |-> z2,
         entry |-> [a |-> a,
                    invoked |-> invoked,
                    completed |-> invoked /\ ~fails,
                    n |-> IF invoked THEN n + 1 ELSE 0,
                    result |-> IF invoked /\ fails THEN LoadError
                               ELSE Method(z2.data, a)]]

LazyIdle ==
    /\ lazy = None
    /\ loads = 0
    /\ lazylog = <<>>

\* the instance has been constructed
LazyInit ==
    /\ lazy \in {NewLazy("LazyDict"), NewLazy("LazyVal")}
    /\ loads = 0
    /\ lazylog = <<>>

\* one access to the instance
LazyAccess(a, fails) ==
    /\ Len(lazylog) < MaxAccesses
    /\ LET r == Access(lazy, loads, a, fails)
       IN  /\ fails => r.entry.invoked
           /\ lazy' = r.z
           /\ loads' = IF r.entry.invoked THEN loads + 1 ELSE loads
           /\ lazylog' = Append(lazylog, r.entry)

\* none of the other functions of the package is in use
UtilIdle == MangleIdle /\ ThreadIdle /\ TimedIdle /\ RepoIdle /\ LazyIdle

\* _mangle_alert_words is about to be called with msg = text
MangleInit ==
    /\ text \in Joined(MaxPieces)
    /\ mangled = NotMangled

\* _mangle_alert_words(msg) returns
MangleReturns ==
    /\ ~mangled.done
    /\ mangled' = [done |-> TRUE, out |-> MangleAlertWords(text)]
    /\ UNCHANGED text

Init == LRUInit /\ RetryIdle /\ CacheIdle /\ UtilIdle

Next ==
    \/ \E k \in Keys, v \in Vals : LRUSet(k, v) /\ UNCHANGED <<retryVars, cacheVars, utilVars>>
    \/ \E k \in Keys : LRUGet(k) /\ UNCHANGED <<retryVars, cacheVars, utilVars>>
    \/ \E k \in Keys : LRUContains(k) /\ UNCHANGED <<retryVars, cacheVars, utilVars>>

Spec == Init /\ [][Next]_vars

InitRetry == LRUIdle /\ RetryInit /\ CacheIdle /\ UtilIdle

NextRetry ==
    \/ RetryBegin /\ UNCHANGED <<lruVars, cacheVars, utilVars>>
    \/ \E v \in f.returns : RetryCallReturns(v) /\ UNCHANGED <<lruVars, cacheVars, utilVars>>
    \/ \E e \in f.raises : RetryCallRaisesUnmatched(e) /\ UNCHANGED <<lruVars, cacheVars, utilVars>>
    \/ \E e \in f.raises : RetryCallRaisesMatched(e) /\ UNCHANGED <<lruVars, cacheVars, utilVars>>
    \/ \E jt \in JitterTerms(policy.jitter) : RetrySleep(jt) /\ UNCHANGED <<lruVars, cacheVars, utilVars>>

SpecRetry == InitRetry /\ [][NextRetry]_vars

\* retry_call of a callable that fails as in test_retry_exception, with all
\* of Exception or RuntimeError alone to catch and a constant delay
RetryErrInit ==
    /\ policy \in [tries : TriesValues,
                   delay : {0, 1},
                   max_delay : {NoMaxDelay},
                   backoff : {1},
                   jitter : {FixedJitter(0)},
                   logger : BOOLEAN,
                   mangle_alert_words : {FALSE},
                   exceptions : {ExceptionTypes, {"RuntimeError"}}]
    /\ f = [raises |-> {RuntimeErr, RuntimeErr2, OSErr, OSErrRuntime}, returns |-> {"ok"}]
    /\ kwargs = None
    /\ NotStarted

InitRetryErr == LRUIdle /\ RetryErrInit /\ CacheIdle /\ UtilIdle

\* retry_call with and without a logger, with and without
\* mangle_alert_words, of a callable that fails as MockTableOpen does
RetryLogInit ==
    /\ policy \in [tries : 1..MaxTries,
                   delay : {1},
                   max_delay : {NoMaxDelay},
                   backoff : {2},
                   jitter : {FixedJitter(0), TupleJitter(0, 1)},
                   logger : BOOLEAN,
                   mangle_alert_words : BOOLEAN,
                   exceptions : {ExceptionTypes}]
    /\ f = [raises |-> {HDF5Err, ValueErr, Unmatched}, returns |-> {"SUCCESS"}]
    /\ kwargs = None
    /\ NotStarted

InitRetryLog == LRUIdle /\ RetryLogInit /\ CacheIdle /\ UtilIdle

\* a function decorated with retry(...) that is called time after time
RetryAgainInit ==
    /\ policy \in [tries : 1..MaxTries,
                   delay : {1},
                   max_delay : {NoMaxDelay},
                   backoff : {2},
                   jitter : {FixedJitter(1)},
                   logger : {FALSE},
                   mangle_alert_words : {FALSE},
                   exceptions : {ExceptionTypes}]
    /\ f = [raises |-> {ZeroDivision, ValueErr, Unmatched}, returns |-> {"ok"}]
    /\ kwargs = None
    /\ NotStarted

InitRetryAgain == LRUIdle /\ RetryAgainInit /\ CacheIdle /\ UtilIdle

NextRetryAgain ==
    \/ NextRetry
    \/ RetryAgain /\ UNCHANGED <<lruVars, cacheVars, utilVars>>

SpecRetryAgain == InitRetryAgain /\ [][NextRetryAgain]_vars

InitTables == LRUIdle /\ TablesInit /\ CacheIdle /\ UtilIdle

NextTables ==
    \/ TablesOpenFile /\ UNCHANGED <<lruVars, cacheVars, utilVars>>
    \/ \E v \in f.returns : RetryCallReturns(v) /\ UNCHANGED <<lruVars, cacheVars, utilVars>>
    \/ \E e \in f.raises : RetryCallRaisesUnmatched(e) /\ UNCHANGED <<lruVars, cacheVars, utilVars>>
    \/ \E e \in f.raises : RetryCallRaisesMatched(e) /\ UNCHANGED <<lruVars, cacheVars, utilVars>>
    \/ /\ pc = "sleep"
       /\ \E jt \in JitterTerms(policy.jitter) : RetrySleep(jt)
       /\ UNCHANGED <<lruVars, cacheVars, utilVars>>

SpecTables == InitTables /\ [][NextTables]_vars

InitCache == CacheInit /\ RetryIdle /\ UtilIdle

NextCache == CacheCall /\ UNCHANGED <<retryVars, utilVars>>

SpecCache == InitCache /\ [][NextCache]_vars

NextCacheKey ==
    \/ \E args \in ArgsValues, kw \in KwargsValues : KeyCall(args, kw) /\ UNCHANGED <<retryVars, utilVars>>
    \/ \E n \in EnvNames, v \in {None, "foo"} : SetEnv(n, v) /\ UNCHANGED <<retryVars, utilVars>>

SpecCacheKey == InitCache /\ [][NextCacheKey]_vars

SpecRetryLog == InitRetryLog /\ [][NextRetry]_vars

InitMangle == LRUIdle /\ RetryIdle /\ CacheIdle /\ MangleInit /\ ThreadIdle /\ TimedIdle /\ RepoIdle /\ LazyIdle

InitThreads == ThreadsInit /\ RetryIdle /\ CacheIdle /\ MangleIdle /\ TimedIdle /\ RepoIdle /\ LazyIdle

NextThreads ==
    \E t \in Threads :
        /\ ThreadStep(t)
        /\ UNCHANGED <<capacity, clock, touch, assigned, last>>
        /\ UNCHANGED <<retryVars, cacheVars, mangleVars, timedVars, repoVars, lazyVars>>

SpecThreads == InitThreads /\ [][NextThreads]_vars

InitTimed == LRUIdle /\ RetryIdle /\ CacheIdle /\ MangleIdle /\ ThreadIdle /\ TimedInit /\ RepoIdle /\ LazyIdle

NextTimed ==
    \/ \E a \in TimedArgs : TimedCall(a) /\ UNCHANGED <<lruVars, retryVars, cacheVars, mangleVars, threadVars, repoVars, lazyVars>>
    \/ TimedCacheInfo /\ UNCHANGED <<lruVars, retryVars, cacheVars, mangleVars, threadVars, repoVars, lazyVars>>
    \/ TimedCacheClear /\ UNCHANGED <<lruVars, retryVars, cacheVars, mangleVars, threadVars, repoVars, lazyVars>>
    \/ Tick /\ UNCHANGED <<lruVars, retryVars, cacheVars, mangleVars, threadVars, repoVars, lazyVars>>

SpecTimed == InitTimed /\ [][NextTimed]_vars

NextMangle ==
    MangleReturns /\ UNCHANGED <<lruVars, retryVars, cacheVars, threadVars, timedVars, repoVars, lazyVars>>

SpecMangle == InitMangle /\ [][NextMangle]_vars

InitRepo == LRUIdle /\ RetryIdle /\ CacheIdle /\ MangleIdle /\ ThreadIdle /\ TimedIdle /\ RepoInit /\ LazyIdle

NextRepo ==
    \/ \E a \in [file_path : FilePaths, version : Versions, repo_path : RepoPaths,
                 require_latest_version : BOOLEAN] :
          GetDataEnters(a) /\ UNCHANGED <<lruVars, retryVars, cacheVars, mangleVars, threadVars, timedVars, lazyVars>>
    \/ GetDataFileNotFound /\ UNCHANGED <<lruVars, retryVars, cacheVars, mangleVars, threadVars, timedVars, lazyVars>>
    \/ GetDataVersionMismatch /\ UNCHANGED <<lruVars, retryVars, cacheVars, mangleVars, threadVars, timedVars, lazyVars>>
    \/ GetDataReturns /\ UNCHANGED <<lruVars, retryVars, cacheVars, mangleVars, threadVars, timedVars, lazyVars>>

SpecRepo == InitRepo /\ [][NextRepo]_vars

InitLazy == LRUIdle /\ RetryIdle /\ CacheIdle /\ MangleIdle /\ ThreadIdle /\ TimedIdle /\ RepoIdle /\ LazyInit

NextLazy ==
    \E a \in AccessesOf(lazy.kind), fails \in BOOLEAN :
        LazyAccess(a, fails) /\ UNCHANGED <<lruVars, retryVars, cacheVars, mangleVars, threadVars, timedVars, repoVars>>

SpecLazy == InitLazy /\ [][NextLazy]_vars

SpecRetryErr == InitRetryErr /\ [][NextRetry]_vars

\* retry_call of a callable that returns or raises as it likes, each call of
\* it and each time.sleep coming to an end
RetryLiveInit ==
    /\ policy \in [tries : TriesValues,
                   delay : {1},
                   max_delay : {NoMaxDelay, MaxDelayOf(1)},
                   backoff : {2},
                   jitter : {FixedJitter(0), TupleJitter(0, 1)},
                   logger : {FALSE},
                   mangle_alert_words : {FALSE},
                   exceptions : {ExceptionTypes}]
    /\ f = [raises |-> {ZeroDivision, ValueErr, Unmatched}, returns |-> {"ok"}]
    /\ kwargs = None
    /\ NotStarted

InitRetryLive == LRUIdle /\ RetryLiveInit /\ CacheIdle /\ UtilIdle

\* the interpreter runs the one thread of the session on: a call of f that
\* terminates returns or raises, a time.sleep that terminates returns
SpecRetryLive == InitRetryLive /\ [][NextRetry]_vars /\ WF_vars(NextRetry)

(***************************************************************************)
(* LRUDict: properties, checked under Spec.                                *)
(***************************************************************************)
\* the order of the dict agrees with the times of the last touches
RecencyConsistent ==
    \A i, j \in DOMAIN od : i < j => touch[od[i].key] < touch[od[j].key]

\* the entries of d other than k, in order
Others(d, k) == DelItem(d, k)

\* C1: with capacity >= 1, len(d) <= capacity after every completed
\* assignment, read and membership test.
C1_LenWithinCapacity == capacity >= 1 => Len(od) <= capacity

\* C1 witness: an insert of a new key into a full dict has completed.
C1_Witness ==
    /\ capacity >= 1
    /\ last.op = "set"
    /\ ~Contains(last.pre, last.key)
    /\ Len(last.pre) = capacity
    /\ Len(od) = capacity

\* C2: an insert of an absent key k into a dict holding capacity entries
\* (capacity >= 1) removes exactly one entry, the one whose last touch is the
\* oldest among the entries present before; k is kept and is the most
\* recently used entry; the other entries keep their values and order.
C2_EvictsLeastRecentlyTouched ==
    (/\ last.op = "set"
     /\ capacity >= 1
     /\ ~Contains(last.pre, last.key)
     /\ Len(last.pre) = capacity)
    => \E e \in KeysOf(last.pre) :
          /\ \A j \in KeysOf(last.pre) : touch[e] <= touch[j]
          /\ KeysOf(od) = (KeysOf(last.pre) \ {e}) \cup {last.key}
          /\ Len(od) = Len(last.pre)
          /\ od[Len(od)] = [key |-> last.key, value |-> last.value]
          /\ \A j \in KeysOf(od) \ {last.key} : touch[j] < touch[last.key]
          /\ Others(od, last.key) = Others(last.pre, e)
          /\ RecencyConsistent

\* C2 witness: the evicted entry is not the one inserted first, because a read
\* refreshed that one.
C2_Witness ==
    /\ last.op = "set"
    /\ capacity >= 2
    /\ ~Contains(last.pre, last.key)
    /\ Len(last.pre) = capacity
    /\ Contains(od, last.pre[capacity].key)
    /\ ~Contains(od, last.pre[1].key)
    /\ assigned[last.pre[1].key] # None
    /\ \E j \in KeysOf(od) \ {last.key} : \E e \in KeysOf(last.pre) \ KeysOf(od) :
          touch[j] > touch[e] /\ touch[j] - touch[e] > 1

\* C3: a read d[k] of a present key returns the value last assigned to k and
\* makes k the most recently used entry, the last of the present entries that
\* inserts of new keys evict; the key set, every stored value and the order
\* of the other keys are unchanged.
C3_ReadHitRefreshes ==
    (last.op = "get" /\ Contains(last.pre, last.key))
    => /\ last.ret = assigned[last.key]
       /\ last.ret = Lookup(last.pre, last.key)
       /\ od[Len(od)].key = last.key
       /\ \A j \in KeysOf(od) \ {last.key} : touch[j] < touch[last.key]
       /\ KeysOf(od) = KeysOf(last.pre)
       /\ \A j \in KeysOf(last.pre) : Lookup(od, j) = Lookup(last.pre, j)
       /\ Others(od, last.key) = Others(last.pre, last.key)
       /\ LET order == FlushOrder(od, capacity)
          IN  Len(order) = Len(od) /\ order[Len(order)] = last.key

\* C3 witness: the key read was the least recently used of a full dict of at
\* least two entries.
C3_Witness ==
    /\ last.op = "get"
    /\ capacity >= 2
    /\ Len(last.pre) = capacity
    /\ last.pre[1].key = last.key
    /\ last.ret \in Vals

\* C4: a membership test, of a present or an absent key, changes neither the
\* contents nor the order of the dict, so the keys that later inserts evict
\* are the same as without the test.
C4_ContainsLeavesDictAlone ==
    last.op = "contains"
    => /\ od = last.pre
       /\ last.ret = (last.key \in KeysOf(last.pre))
       /\ RecencyConsistent
       /\ FlushOrder(od, capacity) = FlushOrder(last.pre, capacity)

\* C4 witness: the key tested is the least recently used of a full dict of at
\* least two entries, the next one to be evicted.
C4_Witness ==
    /\ last.op = "contains"
    /\ capacity >= 2
    /\ Len(od) = capacity
    /\ od[1].key = last.key
    /\ last.ret = TRUE

\* C5: a read d[k] of an absent key (never inserted, or evicted) raises
\* KeyError, returns no value and leaves contents and order unchanged.
C5_ReadMissRaises ==
    (last.op = "get" /\ ~Contains(last.pre, last.key))
    => /\ last.ret = "KeyError"
       /\ od = last.pre
       /\ RecencyConsistent

\* C5 witness: the key read was inserted earlier and has been evicted.
C5_Witness ==
    /\ last.op = "get"
    /\ assigned[last.key] # None
    /\ ~Contains(od, last.key)
    /\ Len(od) = capacity
    /\ last.ret = "KeyError"

\* C6: an assignment d[k] = v to a present key replaces the value, makes k
\* the most recently used entry (also when v is the stored value) and evicts
\* nothing: the key set is unchanged, also at capacity.
C6_UpdateRefreshesNoEviction ==
    (last.op = "set" /\ Contains(last.pre, last.key))
    => /\ Contains(od, last.key)
       /\ Lookup(od, last.key) = last.value
       /\ od[Len(od)].key = last.key
       /\ \A j \in KeysOf(od) \ {last.key} : touch[j] < touch[last.key]
       /\ KeysOf(od) = KeysOf(last.pre)
       /\ Len(od) = Len(last.pre)
       /\ Others(od, last.key) = Others(last.pre, last.key)

\* C6 witness: the key assigned was the least recently used of a full dict and
\* the value assigned is the one it held.
C6_Witness ==
    /\ last.op = "set"
    /\ capacity >= 2
    /\ Len(last.pre) = capacity
    /\ last.pre[1].key = last.key
    /\ Lookup(last.pre, last.key) = last.value

(***************************************************************************)
(* retry: properties, checked under SpecRetry.                             *)
(***************************************************************************)
\* every invocation of the callable so far raised a matched exception
AllFailed == Len(failures) = hit

RECURSIVE SumSeq(_)
SumSeq(q) == IF q = <<>> THEN 0 ELSE Head(q) + SumSeq(Tail(q))

RECURSIVE Pow(_, _)
Pow(b, n) == IF n = 0 THEN 1 ELSE b * Pow(b, n - 1)

\* C7: with tries = n >= 1 and a callable that raises a matched exception on
\* every call, the callable is invoked exactly n times and the session then
\* raises; before that the session goes on, and no session invokes the
\* callable more than n times.
C7_TriesIsTotalAttempts ==
    policy.tries >= 1
    => /\ hit <= policy.tries
       /\ AllFailed =>
            /\ pc = "done" => hit = policy.tries /\ outcome.kind = "raise"
            /\ pc \in {"call", "sleep"} => hit < policy.tries
            /\ hit = policy.tries => pc = "done"

\* C7 witness: three tries, three failed invocations, the session has raised.
C7_Witness ==
    /\ policy.tries = 3
    /\ pc = "done"
    /\ hit = 3
    /\ AllFailed
    /\ outcome.kind = "raise"

\* C8: with a fixed jitter j the sleeps are s_1 = delay and
\* s_(k+1) = s_k * backoff + j, or min(s_k * backoff + j, max_delay) when
\* max_delay is set; with j = 0 and no max_delay they are
\* delay * backoff^(k-1), with backoff = 1, delay = 0 and no max_delay they
\* are (k-1) * j.
C8_SleepRecurrence ==
    ~policy.jitter.tuple
    => LET d == policy.delay
           b == policy.backoff
           j == policy.jitter.lo
           m == policy.max_delay
           Step(x) == IF m.none THEN x * b + j
                      ELSE IF x * b + j <= m.value THEN x * b + j ELSE m.value
       IN  /\ sleeps # <<>> => sleeps[1] = d
           /\ \A k \in 1..(Len(sleeps) - 1) : sleeps[k + 1] = Step(sleeps[k])
           /\ (pc = "sleep" /\ sleeps # <<>>) => delay_ = Step(sleeps[Len(sleeps)])
           /\ (j = 0 /\ m.none) => \A k \in DOMAIN sleeps : sleeps[k] = d * Pow(b, k - 1)
           /\ (b = 1 /\ d = 0 /\ m.none) => \A k \in DOMAIN sleeps : sleeps[k] = (k - 1) * j

\* C8 witness: three sleeps with a fixed jitter of 1, the second below
\* max_delay and the third cut down to it.
C8_Witness ==
    /\ ~policy.jitter.tuple
    /\ policy.jitter.lo = 1
    /\ ~policy.max_delay.none
    /\ Len(sleeps) >= 3
    /\ sleeps[2] < policy.max_delay.value
    /\ sleeps[2] * policy.backoff + 1 > policy.max_delay.value
    /\ sleeps[3] = policy.max_delay.value

\* C9: with max_delay = delay, backoff >= 1 and jitter >= 0 every sleep
\* equals delay, and a session of tries = n failing attempts sleeps
\* delay * (n - 1) in total.
C9_MaxDelayEqualDelay ==
    (/\ ~policy.max_delay.none
     /\ policy.max_delay.value = policy.delay
     /\ policy.backoff >= 1
     /\ policy.jitter.lo >= 0)
    => /\ \A k \in DOMAIN sleeps : sleeps[k] = policy.delay
       /\ (policy.tries >= 1 /\ pc = "done" /\ AllFailed)
            => SumSeq(sleeps) = policy.delay * (policy.tries - 1)

\* C9 witness: three failing tries with delay = max_delay = 2, backoff 2 and
\* a positive jitter: two sleeps of 2.
C9_Witness ==
    /\ policy.tries = 3
    /\ policy.delay = 2
    /\ policy.max_delay = MaxDelayOf(2)
    /\ policy.backoff = 2
    /\ policy.jitter = FixedJitter(1)
    /\ pc = "done"
    /\ AllFailed
    /\ sleeps = <<2, 2>>

\* C10: with negative tries the session never ends by exhaustion: after any
\* number of consecutive matched failures it goes on to sleep and retry, and
\* it ends only when the callable returns or raises an unmatched exception.
C10_NegativeTriesNeverExhausted ==
    policy.tries < 0
    => /\ pc = "done" => outcome \in {Returned(v) : v \in f.returns} \cup {Raised(Unmatched)}
       /\ (AllFailed /\ hit > 0) => pc \in {"sleep", "call"}
       /\ pc # "idle" => LoopContinues(tries_)

\* C10 witness: tries = -1 and the callable has failed MaxCalls times in a row;
\* the session is about to sleep and retry.
C10_Witness ==
    /\ policy.tries = -1
    /\ hit = MaxCalls
    /\ AllFailed
    /\ pc = "sleep"

(***************************************************************************)
(* RetryError and the end of a session, checked under SpecRetryErr.        *)
(***************************************************************************)
\* the exceptions f raised, in the order of the invocations
IsRaise(x) == x.ev = "raise"
RaisedInOrder == SelectSeq(events, IsRaise)

\* some two recorded failures differ in type or in str(value)
SomeTwoDiffer ==
    \E i, j \in DOMAIN failures :
        \/ failures[i].type # failures[j].type
        \/ StrOf(failures[i].value) # StrOf(failures[j].value)

\* C11: RetryError is raised only when the tries run out, and then exactly
\* when some two recorded failures differ in type or in str(value);
\* otherwise the exception just caught is raised again, with its own type
\* and value.
C11_RetryErrorIffFailuresDiffer ==
    /\ outcome.type = "RetryError" => pc = "done" /\ tries_ = 0 /\ AllFailed
    /\ (pc = "done" /\ hit >= 1 /\ AllFailed) =>
           /\ outcome.kind = "raise"
           /\ (outcome.type = "RetryError") <=> SomeTwoDiffer
           /\ ~SomeTwoDiffer => outcome = Raised(RaisedInOrder[hit].exc)

\* C11 witness: three tries end in RetryError after failures of one type
\* whose texts differ.
C11_Witness ==
    /\ pc = "done"
    /\ hit = 3
    /\ outcome.type = "RetryError"
    /\ \A i \in DOMAIN failures : failures[i].type = "RuntimeError"

\* C12: the failures of a RetryError are the whole history of the session:
\* one record per invocation, in the order of the attempts, each with the
\* keys type, value and trace of the exception of that attempt; their
\* number is the number of invocations, which is tries.
C12_FailuresAreTheHistory ==
    outcome.type = "RetryError" =>
        /\ Len(outcome.failures) = hit
        /\ hit = policy.tries
        /\ Len(RaisedInOrder) = hit
        /\ \A i \in 1..hit :
               /\ DOMAIN outcome.failures[i] = {"type", "value", "trace"}
               /\ outcome.failures[i].type = RaisedInOrder[i].exc.type
               /\ outcome.failures[i].value = RaisedInOrder[i].exc.value
               /\ outcome.failures[i].trace = RaisedInOrder[i].d

\* C12 witness: a RetryError that carries three records, the first of an
\* OSError and the last of a RuntimeError.
C12_Witness ==
    /\ outcome.type = "RetryError"
    /\ Len(outcome.failures) = 3
    /\ outcome.failures[1].type = "OSError"
    /\ outcome.failures[3].type = "RuntimeError"

\* C13: an exception of f that "except exceptions" does not catch, at the
\* first or at a later attempt, ends the session at once with that same
\* exception: nothing follows it (no invocation, no sleep, no warning), no
\* failure is recorded for it, and it is not replaced by RetryError.
C13_UnmatchedPropagatesAtOnce ==
    \A i \in DOMAIN events :
        (events[i].ev = "raise" /\ events[i].exc.type \notin policy.exceptions) =>
            /\ i = Len(events)
            /\ pc = "done"
            /\ hit = events[i].d
            /\ outcome.kind = "raise"
            /\ outcome.type = events[i].exc.type
            /\ outcome.value = events[i].exc.value
            /\ outcome.failures = <<>>
            /\ Len(failures) = hit - 1
            /\ \A j \in DOMAIN failures : failures[j].trace # events[i].d
            /\ Len(sleeps) = hit - 1

\* C13 witness: with RuntimeError alone to catch and a logger, the second
\* invocation raises OSError after a RuntimeError was caught.
C13_Witness ==
    /\ policy.exceptions = {"RuntimeError"}
    /\ policy.logger
    /\ hit = 2
    /\ Len(failures) = 1
    /\ events[Len(events)] = RaiseEvent(2, OSErr)
    /\ outcome.type = "OSError"

\* C14: when f returns v at its k-th invocation, after k - 1 caught
\* failures, with k <= tries or tries negative, the session returns
\* exactly v after exactly k invocations and invokes f no more.
C14_ReturnsValueOfKthCall ==
    \A i \in DOMAIN events :
        events[i].ev = "return" =>
            /\ i = Len(events)
            /\ pc = "done"
            /\ hit = events[i].d
            /\ Len(failures) = hit - 1
            /\ policy.tries >= 1 => hit <= policy.tries
            /\ outcome.kind = "return"
            /\ outcome.value = events[i].value
            /\ Cardinality({j \in DOMAIN events : events[j].ev = "call"}) = hit

\* C14 witness: three tries, two caught failures, the third invocation
\* returns.
C14_Witness ==
    /\ policy.tries = 3
    /\ hit = 3
    /\ Len(failures) = 2
    /\ outcome.kind = "return"
    /\ outcome.value = "ok"

(***************************************************************************)
(* The logger and mangle_alert_words, checked under SpecRetryLog.  The     *)
(* twin of a session is the session another policy makes of the same       *)
(* script: the same results of f and the same jitter terms.                *)
(***************************************************************************)
Twin(pol) == Replay(NewSession(pol), pol, ScriptOf(events))

IsWarn(x) == x.ev = "warn"

\* C15: a session without a logger and a session with one, facing the same
\* results of f, make the same invocations and the same sleeps and end the
\* same way with the same failures; without a logger no warning is given.
C15_LoggerOnlyWarns ==
    pc # "idle" =>
        /\ Observable(Twin([policy EXCEPT !.logger = ~@])) = Observable(Session)
        /\ ~policy.logger => SelectSeq(events, IsWarn) = <<>>

\* C15 witness: a session without a logger has slept twice and has raised
\* at its third invocation.
C15_Witness ==
    /\ ~policy.logger
    /\ pc = "done"
    /\ hit = 3
    /\ Len(sleeps) = 2
    /\ outcome.kind = "raise"

\* C16: mangle_alert_words changes the text given to logger.warning and
\* nothing else: the warning is the mangled message when it is set and the
\* plain message when it is not; the sessions with and without it make the
\* same invocations and sleeps and end the same way, and the exception
\* raised and the records of the failures keep the text f raised.
C16_MangleOnlyChangesWarningText ==
    pc # "idle" =>
        /\ Observable(Twin([policy EXCEPT !.mangle_alert_words = ~@]))
               = Observable(Session)
        /\ \A i \in DOMAIN events :
               events[i].ev = "warn" =>
                   LET plain == WarningText(events[i - 1].exc, events[i].d)
                   IN  events[i].msg = IF policy.mangle_alert_words
                                       THEN MangleAlertWords(plain)
                                       ELSE plain
        /\ \A i \in DOMAIN failures :
               failures[i].value = RaisedInOrder[i].exc.value
        /\ (outcome.kind = "raise" /\ outcome.type # "RetryError") =>
               outcome.value = RaisedInOrder[hit].exc.value

\* C16 witness: with mangle_alert_words the warning of an HDF5ExtError
\* before a sleep of 1 reads as below, and the session then raises the
\* HDF5ExtError with the text f gave it.
C16_Witness ==
    /\ policy.mangle_alert_words
    /\ pc = "done"
    /\ hit = 2
    /\ outcome = Raised(HDF5Err)
    /\ \E i \in DOMAIN events :
           /\ events[i].ev = "warn"
           /\ events[i].msg =
                  <<"W", "A", "R", "N", "1", "N", "G", ":", " ", "f", "(",
                    ")", " ", "e", "x", "c", "e", "p", "t", "i", "0", "n",
                    ":", " ", "W", "A", "R", "N", "1", "N", "G", ":", " ",
                    "F", "a", "t", "a", "1", " ", "e", "r", "r", "0", "r",
                    " ", "e", "x", "c", "e", "p", "t", "i", "0", "n", " ",
                    "F", "A", "I", "1", "U", "R", "E", ",", " ", "r", "e",
                    "t", "r", "y", "i", "n", "g", " ", "i", "n", " ", "1",
                    " ", "s", "e", "c", "o", "n", "d", "s", ".", ".", ".">>
           /\ events[i].msg # WarningText(HDF5Err, 1)

(***************************************************************************)
(* Repeated calls of a decorated function, checked under SpecRetryAgain.   *)
(***************************************************************************)
\* C17: every call of a function decorated with retry starts a session of
\* its own, with the full number of tries, the initial delay and no
\* failures; whatever earlier calls did, the session is the one a first
\* call makes of the same results of f.
C17_EveryCallStartsFresh ==
    pc # "idle" =>
        /\ hit = 0 =>
               /\ tries_ = policy.tries
               /\ delay_ = policy.delay
               /\ failures = <<>>
               /\ sleeps = <<>>
        /\ Session = Replay(NewSession(policy), policy, ScriptOf(events))
        /\ policy.tries >= 1 => hit <= policy.tries

\* C17 witness: the first call used up its three tries and raised
\* RetryError after sleeping 1 and 3; the second call did the same again.
C17_Witness ==
    /\ Len(history) = 1
    /\ history[1].hit = 3
    /\ history[1].outcome.type = "RetryError"
    /\ pc = "done"
    /\ hit = 3
    /\ sleeps = <<1, 3>>
    /\ Len(failures) = 3
    /\ outcome.kind = "raise"

(***************************************************************************)
(* chandra_models_cache, checked under SpecCache and SpecCacheKey.         *)
(***************************************************************************)
\* C18: a call with a key that is in the cache returns the very object
\* stored for it and does not invoke func.  A result stays in the cache
\* exactly as long as fewer than 32 other distinct keys were used since
\* its last use: after 31 others the call returns the same object, after
\* 32 others func is invoked again.
C18_CacheKeepsLast32Keys ==
    /\ \A i \in DOMAIN uses :
           Contains(od, uses[i]) <=> OthersSince(uses, uses[i]) < 32
    /\ last.op = "call" =>
           /\ last.invoked <=> ~Contains(last.pre, last.key)
           /\ ~last.invoked => last.ret = Lookup(last.pre, last.key)
           /\ last.invoked => last.ret = made
           /\ last.known =>
                  IF last.others < 32
                  THEN ~last.invoked /\ last.ret = last.stored
                  ELSE last.invoked /\ last.ret # last.stored

\* C18 witness: 32 other keys were used since the last use of the key, and
\* the call invokes func again.
C18_Witness ==
    /\ last.op = "call"
    /\ last.known
    /\ last.others = 32
    /\ last.invoked
    /\ Len(last.pre) = 32

ItemSet(kw) == {kw[i] : i \in DOMAIN kw}

\* the last two calls have equal positional arguments, equal sets of
\* keyword items and were made with equal values of the variables
SameInputs ==
    /\ prev.args = last.args
    /\ ItemSet(prev.kwargs) = ItemSet(last.kwargs)
    /\ \A n \in EnvNames : prev.env[n] = last.env[n]

\* C19: two calls share a cache entry exactly when their positional
\* arguments are equal, the sets of the keyword items they pass are equal,
\* whatever the order, and the three variables have equal values; a call
\* that differs from all calls before in one of these invokes func.
C19_KeyIsArgsKwargsEnv ==
    (prev.op = "call" /\ last.op = "call") =>
        /\ SameInputs <=> prev.key = last.key
        /\ SameInputs => ~last.invoked /\ last.ret = prev.ret
        /\ ~SameInputs => last.ret # prev.ret
        /\ last.invoked <=> ~last.known

\* C19 witness: a call that passes b=1, the default of func, after a call
\* with the same argument that passes no keyword: func is invoked again.
C19_Witness ==
    /\ prev.op = "call"
    /\ last.op = "call"
    /\ prev.args = last.args
    /\ prev.kwargs = <<>>
    /\ last.kwargs = <<Kw("b", 1)>>
    /\ prev.env = last.env
    /\ last.invoked

(***************************************************************************)
(* tables_open_file, checked under SpecTables.                             *)
(***************************************************************************)
\* tables_open_file is called without retry_tries, retry_delay and
\* retry_backoff
DefaultRetryArguments ==
    /\ kwargs.retry_tries = Absent
    /\ kwargs.retry_delay = Absent
    /\ kwargs.retry_backoff = Absent

\* what the claims about the default arguments have in common: at most 3
\* calls of tables.open_file, a retry only after HDF5ExtError, sleeps of 2
\* and then 4 seconds, no sleep after the third failure, and the handle
\* returned by an open that succeeds
DefaultsTiming ==
    /\ hit <= 3
    /\ sleeps \in {<<>>, <<2>>, <<2, 4>>}
    /\ Len(sleeps) = IF pc = "call" THEN hit ELSE hit - 1
    /\ \A i \in DOMAIN failures : failures[i].type = "HDF5ExtError"
    /\ \A i \in DOMAIN events :
           (events[i].ev = "raise" /\ events[i].exc.type # "HDF5ExtError") =>
               /\ i = Len(events)
               /\ pc = "done"
               /\ outcome.kind = "raise"
               /\ outcome.type = events[i].exc.type
    /\ \A i \in DOMAIN events :
           events[i].ev = "return" =>
               /\ i = Len(events)
               /\ pc = "done"
               /\ outcome.kind = "return"
               /\ outcome.value = events[i].value
    /\ (hit = 3 /\ AllFailed) =>
           /\ pc = "done"
           /\ sleeps = <<2, 4>>
           /\ outcome.kind = "raise"

\* C20 as stated: with the default retry arguments tables.open_file is
\* called at most 3 times and only HDF5ExtError is retried; the sleeps are 2
\* and then 4 seconds; the third failure is raised to the caller with no
\* further sleep; an open that succeeds at attempt 1, 2 or 3 returns the
\* handle.
C20_AsStated ==
    (DefaultRetryArguments /\ pc # "idle") =>
        /\ DefaultsTiming
        /\ (hit = 3 /\ AllFailed) =>
               /\ outcome.type = RaisedInOrder[3].exc.type
               /\ outcome.value = RaisedInOrder[3].exc.value

\* C20, amended: as above, but what reaches the caller after the third
\* failure is the third HDF5ExtError only when the three failures have the
\* same text; when two of them differ it is a RetryError that carries the
\* three failures.
C20_TablesOpenFileDefaults ==
    (DefaultRetryArguments /\ pc # "idle") =>
        /\ DefaultsTiming
        /\ (hit = 3 /\ AllFailed) =>
               IF SomeTwoDiffer
               THEN outcome.type = "RetryError" /\ Len(outcome.failures) = 3
               ELSE /\ outcome.type = "HDF5ExtError"
                    /\ outcome.value = RaisedInOrder[3].exc.value

\* C20 witness: with the defaults, three HDF5ExtErrors whose texts differ;
\* the call has slept 2 and 4 and has raised RetryError.
C20_Witness ==
    /\ DefaultRetryArguments
    /\ pc = "done"
    /\ hit = 3
    /\ sleeps = <<2, 4>>
    /\ \A i \in DOMAIN failures : failures[i].type = "HDF5ExtError"
    /\ outcome.type = "RetryError"

(***************************************************************************)
(* _mangle_alert_words, checked under SpecMangle.                          *)
(***************************************************************************)
\* the five words, each with the position of the letter that is replaced
TheWords == {
    [lo |-> <<"w", "a", "r", "n", "i", "n", "g">>,
     up |-> <<"W", "A", "R", "N", "I", "N", "G">>, at |-> 5],
    [lo |-> <<"e", "r", "r", "o", "r">>,
     up |-> <<"E", "R", "R", "O", "R">>, at |-> 4],
    [lo |-> <<"f", "a", "t", "a", "l">>,
     up |-> <<"F", "A", "T", "A", "L">>, at |-> 5],
    [lo |-> <<"f", "a", "i", "l">>,
     up |-> <<"F", "A", "I", "L">>, at |-> 4],
    [lo |-> <<"e", "x", "c", "e", "p", "t", "i", "o", "n">>,
     up |-> <<"E", "X", "C", "E", "P", "T", "I", "O", "N">>, at |-> 8] }

\* msg has the word w at position i, in whatever letter case
WordAt(msg, i, w) ==
    /\ i + Len(w.lo) - 1 <= Len(msg)
    /\ \A j \in DOMAIN w.lo : msg[i + j - 1] \in {w.lo[j], w.up[j]}

HasWord(msg) == \E w \in TheWords : \E i \in DOMAIN msg : WordAt(msg, i, w)

\* C21: the result of _mangle_alert_words contains none of the words
\* warning, error, fatal, fail, exception in whatever letter case; it is as
\* long as the argument and differs from it only where an i or l of one of
\* the words was replaced by 1 or an o by 0; an argument without such a
\* word is returned as it is.
C21_MangleRemovesAlertWords ==
    mangled.done =>
        /\ ~HasWord(mangled.out)
        /\ Len(mangled.out) = Len(text)
        /\ \A i \in DOMAIN text :
               mangled.out[i] # text[i] =>
                   /\ \/ mangled.out[i] = "1" /\ text[i] \in {"i", "I", "l", "L"}
                      \/ mangled.out[i] = "0" /\ text[i] \in {"o", "O"}
                   /\ \E w \in TheWords : \E k \in DOMAIN text :
                          WordAt(text, k, w) /\ i = k + w.at - 1
        /\ ~HasWord(text) => mangled.out = text

\* C21 witness: FATALfail comes back as FATA1fai1.
C21_Witness ==
    /\ mangled.done
    /\ text = <<"F", "A", "T", "A", "L", "f", "a", "i", "l">>
    /\ mangled.out = <<"F", "A", "T", "A", "1", "f", "a", "i", "1">>

(***************************************************************************)
(* An LRUDict used by two threads, checked under SpecThreads.              *)
(***************************************************************************)
\* the operation of thread t has raised KeyError for a key that was in the
\* dict when the operation started, or that the operation had inserted
BadKeyError(t) ==
    /\ thr[t].result = "KeyError"
    /\ \/ thr[t].errkey \in thr[t].snap
       \/ thr[t].inserted /\ thr[t].errkey = thr[t].key

\* the operation of thread t has returned and left more items than
\* capacity
BadSize(t) ==
    /\ thr[t].result = "ok"
    /\ thr[t].size > capacity

\* C22: when every d[k] = v and d[k] runs under one mutex, no operation
\* raises KeyError for a key that was present when it started or that it
\* inserted, and no operation leaves more items than capacity when it
\* returns.  (Without the mutex such states are reachable: the witness.)
C22_MutexMakesLRUDictSafe ==
    locked =>
        \A t \in Threads :
            /\ ~BadKeyError(t)
            /\ ~BadSize(t)
            /\ thr[t].result # "StopIteration"

\* C22 witness: without the mutex one thread has left more items than
\* capacity and the other has raised KeyError for a key that was present
\* when it started.
C22_Witness ==
    /\ ~locked
    /\ capacity >= 1
    /\ \E t \in Threads : BadSize(t)
    /\ \E t \in Threads : BadKeyError(t) /\ thr[t].errkey \in thr[t].snap

(***************************************************************************)
(* lru_cache_timed, checked under SpecTimed.                               *)
(***************************************************************************)
\* C25: with a clock that does not go back, a call or cache_info() clears
\* the whole cache when it is the first after decoration or is made
\* timeout or more seconds after the previous expiry clear, and not
\* otherwise; so no call returns a cached result that was computed timeout
\* or more seconds before the call.
C25_TimedCacheExpires ==
    tlast.op # "init" =>
        /\ tlast.cleared <=>
               \/ ~tlast.before.done
               \/ tlast.at >= tlast.before.at + timeout
        /\ tlast.cleared => tlast.size = IF tlast.op = "call" THEN 1 ELSE 0
        /\ (tlast.op = "call" /\ tlast.cleared) => ~tlast.hit
        /\ (tlast.op = "call" /\ tlast.hit) => tlast.at - tlast.computed < timeout
        /\ \A a \in DOMAIN fcache : expiry.done /\ fcache[a] >= expiry.at

\* C25 witness: with a timeout of 2, a call made 2 seconds after the
\* previous expiry clear clears the cache and computes its result anew.
C25_Witness ==
    /\ timeout = 2
    /\ tlast.op = "call"
    /\ tlast.cleared
    /\ tlast.before.done
    /\ tlast.at = tlast.before.at + 2
    /\ ~tlast.hit
    /\ tlast.computed = tlast.at

(***************************************************************************)
(* The order of invocations and sleeps, checked under SpecRetryErr.        *)
(***************************************************************************)
\* the invocations of f and the sleeps of the session, in order
IsStep(x) == x.ev \in {"call", "sleep"}
Steps == SelectSeq(events, IsStep)

\* C23: in a session the invocations of the callable and the sleeps
\* alternate, beginning with an invocation: the k-th invocation has ended
\* (returned or raised) before anything else happens, one sleep lies between
\* two consecutive invocations, no sleep follows the last invocation, and a
\* session that ended after a >= 1 attempts has slept a - 1 times.
C23_CallsAndSleepsAlternate ==
    /\ \A i \in DOMAIN Steps :
          /\ Steps[i].ev = IF i % 2 = 1 THEN "call" ELSE "sleep"
          /\ Steps[i].ev = "call" => Steps[i].d = (i + 1) \div 2
    /\ \A i \in DOMAIN events :
          events[i].ev = "call"
          => /\ i < Len(events)
             /\ events[i + 1].ev \in {"return", "raise"}
             /\ events[i + 1].d = events[i].d
    /\ Len(Steps) = hit + Len(sleeps)
    /\ pc = "call" => Len(sleeps) = hit
    /\ pc = "sleep" => Len(sleeps) = hit - 1
    /\ (pc = "done" /\ hit >= 1)
         => /\ Len(sleeps) = hit - 1
            /\ Steps[Len(Steps)].ev = "call"
            /\ events[Len(events)].ev \in {"return", "raise"}
    /\ (pc = "done" /\ policy.tries # 0) => hit >= 1

\* C23 witness: a session of three attempts, the third successful, has slept
\* twice, after the first and after the second attempt.
C23_Witness ==
    /\ pc = "done"
    /\ hit = 3
    /\ outcome.kind = "return"
    /\ Len(sleeps) = 2
    /\ [i \in DOMAIN Steps |-> Steps[i].ev] = <<"call", "sleep", "call", "sleep", "call">>

(***************************************************************************)
(* The warnings of a session, checked under SpecRetryLog.                  *)
(***************************************************************************)
\* the end of a warning that announces a sleep of d seconds
RetryingIn(d) ==
    <<",", " ", "r", "e", "t", "r", "y", "i", "n", "g", " ", "i", "n", " ">>
        \o IntStr(d) \o <<" ", "s", "e", "c", "o", "n", "d", "s", ".", ".", ".">>

EndsWith(msg, tail) ==
    /\ Len(msg) >= Len(tail)
    /\ SubSeq(msg, Len(msg) - Len(tail) + 1, Len(msg)) = tail

WarnCount == Len(SelectSeq(events, IsWarn))

\* C24: with a logger, every matched failure that is followed by a retry is
\* followed at once by one warning, and that by the sleep; the message names
\* the duration of that sleep; a warning comes only after a matched failure,
\* so none comes after the exhausting failure, an unmatched exception or a
\* successful attempt. Without a logger there is no warning.
C24_OneWarningPerRetriedFailure ==
    /\ ~policy.logger => WarnCount = 0
    /\ policy.logger =>
        /\ \A i \in DOMAIN events :
              /\ (events[i].ev = "raise" /\ i < Len(events))
                   => events[i + 1].ev = "warn"
              /\ (events[i].ev = "raise" /\ i = Len(events))
                   => pc = "done" /\ outcome.kind = "raise"
              /\ events[i].ev = "return" => i = Len(events)
              /\ events[i].ev = "warn"
                   => /\ i > 1
                      /\ events[i - 1].ev = "raise"
                      /\ events[i - 1].exc.type \in policy.exceptions
                      /\ i < Len(events)
                           => /\ events[i + 1].ev = "sleep"
                              /\ EndsWith(events[i].msg, RetryingIn(events[i + 1].d))
                      /\ i = Len(events)
                           => /\ pc = "sleep"
                              /\ EndsWith(events[i].msg, RetryingIn(delay_))
              /\ events[i].ev = "sleep" => i > 1 /\ events[i - 1].ev = "warn"
        /\ WarnCount = Len(sleeps) + (IF pc = "sleep" THEN 1 ELSE 0)
        /\ pc = "done"
             => WarnCount = IF outcome.kind = "raise" /\ Len(failures) = hit
                            THEN Len(failures) - 1 ELSE Len(failures)

\* C24 witness: with a logger and three tries, two matched failures were
\* each followed by a warning and a sleep, and the third, which exhausts the
\* tries, by none.
C24_Witness ==
    /\ policy.logger
    /\ policy.tries = 3
    /\ pc = "done"
    /\ Len(failures) = 3
    /\ WarnCount = 2
    /\ [i \in DOMAIN events |-> events[i].ev]
         = <<"call", "raise", "warn", "sleep", "call", "raise", "warn", "sleep",
             "call", "raise">>

(***************************************************************************)
(* Sessions that make no attempt, and the first sleep, checked under       *)
(* SpecRetryErr and SpecRetry.                                             *)
(***************************************************************************)
\* C27: a session that has returned to its caller has invoked the callable
\* at least once, and returns the value the last invocation returned, for
\* negative, zero and positive tries.
C27_ReturnsOnlyAfterAnInvocation ==
    (pc = "done" /\ outcome.kind = "return")
    => /\ hit >= 1
       /\ events # <<>>
       /\ events[Len(events)].ev = "return"
       /\ outcome = Returned(events[Len(events)].value)

\* C28: with max_delay set no sleep is longer than max_delay, the first one
\* included, whatever the initial delay, the backoff and the jitter are.
C28_EverySleepWithinMaxDelay ==
    ~policy.max_delay.none
    => \A k \in DOMAIN sleeps : sleeps[k] <= policy.max_delay.value

(***************************************************************************)
(* Termination, checked under SpecRetryLive.                               *)
(***************************************************************************)
\* the session has returned the value of an invocation or raised
Terminated ==
    /\ pc = "done"
    /\ outcome.kind \in {"return", "raise"}
    /\ outcome # FellThrough

\* C29: with tries = n >= 1 a session never makes more than n invocations
\* nor more than n - 1 sleeps, and it comes to its end, returning or
\* raising, whatever the callable does at each invocation.
C29_PositiveTriesTerminates ==
    /\ [](policy.tries >= 1
           => hit <= policy.tries /\ Len(sleeps) <= policy.tries - 1)
    /\ (policy.tries >= 1) ~> Terminated

\* C29 witness: a session with three tries that ended by raising after three
\* invocations and two sleeps, having seen two kinds of failure.
C29_Witness ==
    /\ policy.tries = 3
    /\ Terminated
    /\ outcome.kind = "raise"
    /\ outcome.type = "RetryError"
    /\ hit = 3
    /\ Len(sleeps) = 2

(***************************************************************************)
(* get_local_repo: clean-up, checked under SpecRepo.                       *)
(***************************************************************************)
\* C26: whenever the with block of get_local_repo has been left, normally
\* or by an exception of the body, the repo is closed and, if a clone was
\* made, its temporary directory is removed.
C26_CleanUpOnEveryExit ==
    (entered /\ gdpc \in {"returned", "raised"})
    => /\ repo.closed
       /\ clone => ~repo_path_local.exists

(***************************************************************************)
(* LazyDict and LazyVal: properties, checked under SpecLazy.               *)
(***************************************************************************)
\* C30: load_func is not invoked before the first access; it is invoked only
\* by an access, completes at most once, and once it has completed every
\* later access is answered from what it returned, without another
\* invocation.
C30_LoadsAtMostOnce ==
    /\ lazylog = <<>> => loads = 0 /\ ~lazy.loaded /\ lazy.data = <<>>
    /\ loads = Cardinality({i \in DOMAIN lazylog : lazylog[i].invoked})
    /\ Cardinality({i \in DOMAIN lazylog : lazylog[i].completed}) <= 1
    /\ \A i \in DOMAIN lazylog :
          lazylog[i].completed
          => \A j \in i..Len(lazylog) :
                /\ j > i => ~lazylog[j].invoked
                /\ lazylog[j].result = Method(LoadFunc(lazylog[i].n), lazylog[j].a)

\* C30 witness: a LazyDict whose load_func failed at the first access and
\* returned at the second; the third access, of a key that is missing, is
\* answered from the data of the second invocation.
C30_Witness ==
    /\ lazy.kind = "LazyDict"
    /\ Len(lazylog) = 3
    /\ lazylog[1].result.kind = "raise"
    /\ lazylog[2].completed
    /\ lazylog[2].a.op = "len"
    /\ lazylog[2].result.value = 2
    /\ lazylog[3].a = [op |-> "getitem", k |-> "z"]
    /\ lazylog[3].result.kind = "KeyError"
    /\ loads = 2

=============================================================================
